---- MODULE Spec2Model ----
(***************************************************************************)
(* Chunked BLE transfer, host side.                                        *)
(*                                                                         *)
(*   ChunkedBLEProtocol            src/chunked_ble_protocol.py             *)
(*   RefactoredChunkedBLEProtocol  src/refactored_chunked_protocol.py      *)
(*                                                                         *)
(* Spec    : two ChunkedBLEProtocol endpoints A and B joined by a data and *)
(*           a control channel; A calls send_data once, the link may       *)
(*           reorder, duplicate or corrupt data frames and may drop ACKs.  *)
(* SpecBig : the same two endpoints on a lossless in-order link that hands *)
(*           over one frame at a time, for payloads near the size limits.  *)
(* SpecH   : one ChunkedBLEProtocol whose handlers are called with the     *)
(*           frames and ACKs of a peer that need not follow the protocol.  *)
(* SpecC   : one ChunkedBLEProtocol with two calls of send_data in flight. *)
(* SpecV   : one ChunkedBLEProtocol receiving while receive_data waits.    *)
(* SpecE   : one ChunkedBLEProtocol sending to a peer that answers with    *)
(*           CHUNK_ERROR.                                                  *)
(* SpecS   : one ChunkedBLEProtocol sending and receiving, for the         *)
(*           invariants of its receive state and statistics.               *)
(* SpecL   : one ChunkedBLEProtocol receiving frames that announce         *)
(*           transfers beyond the limits.                                  *)
(* SpecF   : send_data alone, on payloads of every shape.                  *)
(* SpecW   : send_data alone, with writes that may fail.                   *)
(* SpecR   : a RefactoredChunkedBLEProtocol sender and receiver.           *)
(* SpecRV  : SpecR with receive_data called on the endpoints.              *)
(* SpecQ   : the ChunkedBLEProtocol of src/chunked_ble.py, its             *)
(*           response_queue and two send_data calls.                       *)
(*                                                                         *)
(* Byte strings are kept run-length encoded (a sequence of runs of equal   *)
(* bytes) so that payloads of the real sizes can be sliced, joined and     *)
(* checksummed.                                                            *)
(***************************************************************************)
EXTENDS Integers, Sequences, FiniteSets, TLC

VARIABLES proto, call, dataCh, ctrlCh, link, clock, hist, ev,
          rs, rsend, rdataCh, rctrlCh, rlink, rhist

cvars == <<proto, call, dataCh, ctrlCh, link, clock, hist, ev>>
rvars == <<rs, rsend, rdataCh, rctrlCh, rlink, rhist>>
vars == <<cvars, rvars>>

-----------------------------------------------------------------------------
(* Program constants                                                       *)

ACK_CHUNK_RECEIVED == 1
ACK_CHUNK_ERROR == 2
ACK_TRANSFER_COMPLETE == 3
ACK_TRANSFER_SUCCESS == 4
ACK_TRANSFER_FAILED == 5

HEADER_SIZE == 17
CHUNK_SIZE == 168
ACK_MESSAGE_SIZE == 13
MAX_TOTAL_DATA_SIZE == 64 * 1024
MAX_CHUNKS_PER_TRANSFER == 365
DEFAULT_CHUNK_TIMEOUT == 15
DEFAULT_MAX_RETRIES == 3

\* Python's None for the integer-valued fields, and for a slot of a chunk list
\* (a stored chunk is never empty: data_size >= 1 is validated before storing).
None == 0 - 1
NoneSlot == <<>>

-----------------------------------------------------------------------------
(* Bounds of the model                                                     *)

MaxFaults == 2     \* faults of the link in one run: a frame delivered twice,
                   \* a frame corrupted, a pause longer than the chunk timeout
MaxCompleteWrites == 2  \* TRANSFER_COMPLETE ACKs one endpoint writes

-----------------------------------------------------------------------------
(* Byte strings, run-length encoded                                        *)

Min(a, b) == IF a <= b THEN a ELSE b

Run(v, n) == [v |-> v, n |-> n]

RECURSIVE BLen(_)
BLen(b) == IF b = <<>> THEN 0 ELSE Head(b).n + BLen(Tail(b))

\* canonical form: no empty run, no two adjacent runs of the same byte
RECURSIVE Norm(_)
Norm(b) ==
    IF b = <<>> THEN <<>>
    ELSE IF Head(b).n = 0 THEN Norm(Tail(b))
    ELSE LET t == Norm(Tail(b)) IN
         IF t # <<>> /\ Head(t).v = Head(b).v
         THEN <<Run(Head(b).v, Head(b).n + Head(t).n)>> \o Tail(t)
         ELSE <<Head(b)>> \o t

\* data[lo:hi]
RECURSIVE Cut(_, _, _)
Cut(b, lo, hi) ==
    IF b = <<>> \/ hi <= lo THEN <<>>
    ELSE LET r == Head(b) IN
         IF lo >= r.n THEN Cut(Tail(b), lo - r.n, hi - r.n)
         ELSE <<Run(r.v, Min(hi, r.n) - lo)>> \o Cut(Tail(b), 0, hi - r.n)

Slice(b, lo, hi) == Norm(Cut(b, lo, hi))

\* a + b for two canonical byte strings
Concat(a, b) ==
    IF a = <<>> THEN b
    ELSE IF b = <<>> THEN a
    ELSE IF a[Len(a)].v = Head(b).v
    THEN SubSeq(a, 1, Len(a) - 1) \o <<Run(Head(b).v, a[Len(a)].n + Head(b).n)>> \o Tail(b)
    ELSE a \o b

\* the chunks lo..hi of a chunk list joined, None slots left out
RECURSIVE JoinRange(_, _, _)
JoinRange(chunks, lo, hi) ==
    IF lo > hi THEN <<>>
    ELSE IF lo = hi THEN chunks[lo]
    ELSE LET mid == (lo + hi) \div 2
         IN Concat(JoinRange(chunks, lo, mid), JoinRange(chunks, mid + 1, hi))

\* b''.join(chunk for chunk in chunks if chunk is not None)
Join(chunks) == JoinRange(chunks, 1, Len(chunks))

\* one byte of the string altered (the first one)
FlipByte(b) ==
    IF b = <<>> THEN b
    ELSE Norm(<<Run((Head(b).v + 1) % 256, 1), Run(Head(b).v, Head(b).n - 1)>>
              \o Tail(b))

\* Checksum standing in for zlib.crc32(data) & 0xFFFFFFFF: it depends on the
\* length, on every byte and on every byte's position, and a change of one byte
\* always changes it.  Values stay below 32749 (TLC integers are 32 bits wide).
M(x) == x % 32749

RECURSIVE CrcSum(_, _)
CrcSum(b, off) ==
    IF b = <<>> THEN 0
    ELSE LET r == Head(b)
             n == r.n
             tri == IF n % 2 = 0 THEN M(M(n \div 2) * M(n + 1))
                                 ELSE M(M(n) * M((n + 1) \div 2))
             pos == M(M(M(n) * M(off)) + tri)
             s1 == M(r.v * M(n))
             s2 == M(r.v * pos)
         IN M(s1 + (31 * s2) + CrcSum(Tail(b), off + n))

_calculate_crc32(data) == M(1 + (7 * M(BLen(data))) + CrcSum(data, 0))

-----------------------------------------------------------------------------
(* Frames                                                                  *)

\* A chunk frame: the 17-byte header's fields and the payload slice after it.
Frame(num, total, size, ccrc, gcrc, tsize, data) ==
    [chunk_num |-> num, total_chunks |-> total, data_size |-> size,
     chunk_crc32 |-> ccrc, global_crc32 |-> gcrc, total_data_size |-> tsize,
     data |-> data]

\* len(data) of the raw frame
FrameLen(f) == HEADER_SIZE + BLen(f.data)

\* A 13-byte ACK message
Ack(t, num, total, gcrc) ==
    [ack_type |-> t, chunk_number |-> num, total_chunks |-> total,
     global_crc32 |-> gcrc]

TotalChunks(data) == (BLen(data) + CHUNK_SIZE - 1) \div CHUNK_SIZE

\* a slicing that leaves out the last byte of every full chunk
ChunkOfShort(data, i) ==
    Slice(data, (i - 1) * CHUNK_SIZE, Min((i - 1) * CHUNK_SIZE + CHUNK_SIZE - 1, BLen(data)))

\* chunks[i-1] of send_data, i in 1..total_chunks
ChunkOf(data, i) ==
    Slice(data, (i - 1) * CHUNK_SIZE, Min((i - 1) * CHUNK_SIZE + CHUNK_SIZE, BLen(data)))

Chunks(data) == [i \in 1..TotalChunks(data) |-> ChunkOf(data, i)]

\* chunk_packet of send_data for the 1-based chunk number i
ChunkPacket(data, i) ==
    Frame(i, TotalChunks(data), BLen(ChunkOf(data, i)),
          _calculate_crc32(ChunkOf(data, i)), _calculate_crc32(data), BLen(data),
          ChunkOf(data, i))

-----------------------------------------------------------------------------
(* ChunkedBLEProtocol: the object's fields                                 *)

\* The fields set by __init__.  attrs holds the names of the attributes that
\* are created after construction (what hasattr() tests); tasks are the
\* _send_ack_message tasks created with asyncio.create_task and not yet run;
\* delivered lists the payloads passed to _data_received_callback.
ProtoInit ==
    [_received_chunks |-> <<>>,
     _expected_chunks |-> 0,
     _received_chunk_count |-> 0,
     _complete_data_event |-> FALSE,
     _received_data |-> NoneSlot,
     _transfer_in_progress |-> FALSE,
     _chunk_timeout |-> DEFAULT_CHUNK_TIMEOUT,
     _last_chunk_time |-> None,
     _expected_global_crc32 |-> None,
     _sending_chunks |-> FALSE,
     _chunks_to_send |-> <<>>,
     _ack_received_event |-> FALSE,
     _stats |-> [total_data_sent |-> 0, total_data_received |-> 0,
                 crc_errors |-> 0, timeouts |-> 0, successful_transfers |-> 0,
                 ack_timeouts |-> 0, retransmissions |-> 0,
                 last_transfer_time |-> 0],
     attrs |-> {},
     _response_chunks |-> NoneSlot,
     _response_chunk_count |-> 0,
     _response_expected_chunks |-> 0,
     _response_expected_global_crc32 |-> 0,
     tasks |-> <<>>,
     delivered |-> <<>>]

hasattr(s, name) == name \in s.attrs

setattr(s, name) == [s EXCEPT !.attrs = @ \cup {name}]

delattr(s, name) == [s EXCEPT !.attrs = @ \ {name}]

\* asyncio.create_task(self._send_ack_message(ack_type, chunk_number))
create_task(s, ack_type, chunk_number) ==
    [s EXCEPT !.tasks = Append(@, [ack_type |-> ack_type,
                                   chunk_number |-> chunk_number])]

\* self._data_received_callback(complete_data)
_data_received_callback(s, complete_data) ==
    [s EXCEPT !.delivered = Append(@, complete_data)]

\* [None] * total_chunks
NoneList(total_chunks) == [i \in 1..total_chunks |-> NoneSlot]

_update_chunk_timer(s, now) == [s EXCEPT !._last_chunk_time = now]

_check_chunk_timeout(s, now) ==
    IF s._chunk_timeout <= 0 THEN FALSE
    ELSE IF s._last_chunk_time = None THEN FALSE
    ELSE now - s._last_chunk_time > s._chunk_timeout

_cancel_transfer(s) ==
    [s EXCEPT !._transfer_in_progress = FALSE,
              !._stats.timeouts = @ + 1,
              !._received_chunks = <<>>,
              !._expected_chunks = 0,
              !._received_chunk_count = 0,
              !._complete_data_event = FALSE]

\* a size validation that lets every payload pass
ValidateDataSizeAlways(size) == TRUE

_validate_data_size(size) == ~(size > MAX_TOTAL_DATA_SIZE)

_validate_chunk_header(chunk_num, total_chunks, data_size, total_packet_size) ==
    IF chunk_num < 1 \/ chunk_num > total_chunks THEN FALSE
    ELSE IF total_chunks <= 0 \/ total_chunks > MAX_CHUNKS_PER_TRANSFER THEN FALSE
    ELSE IF data_size <= 0 \/ data_size > CHUNK_SIZE THEN FALSE
    ELSE IF total_packet_size # HEADER_SIZE + data_size THEN FALSE
    ELSE TRUE

_reset_receive_state(s) ==
    [s EXCEPT !._received_chunks = <<>>,
              !._expected_chunks = 0,
              !._received_chunk_count = 0,
              !._complete_data_event = FALSE,
              !._received_data = NoneSlot,
              !._transfer_in_progress = FALSE,
              !._last_chunk_time = None,
              !._expected_global_crc32 = None]

\* The except clause of _process_received_chunk: whatever the body changed
\* before it raised stays changed.
ChunkExcept(s) ==
    [create_task(s, ACK_CHUNK_ERROR, 0) EXCEPT !._stats.crc_errors = @ + 1]

\* The three rejections before anything is stored: NAK and count a CRC error.
ChunkReject(s, chunk_num) ==
    [create_task(s, ACK_CHUNK_ERROR, chunk_num) EXCEPT !._stats.crc_errors = @ + 1]

\* A step of the handler's body: the state and whether the handler has returned.
Go(s) == [s |-> s, ret |-> FALSE]
Ret(s) == [s |-> s, ret |-> TRUE]

-----------------------------------------------------------------------------
(* ChunkedBLEProtocol._process_received_chunk                              *)

\* "Initialize transfer if this is the first chunk" and the global CRC
\* consistency check of the later chunks.
ChunkInit(s, f) ==
    IF s._sending_chunks /\ ~hasattr(s, "_response_chunks") THEN
        LET s1 == setattr([s EXCEPT !._response_expected_chunks = f.total_chunks],
                          "_response_expected_chunks")
            alloc(x) == setattr([x EXCEPT !._response_chunks = NoneList(f.total_chunks),
                                          !._response_chunk_count = 0],
                                "_response_chunks")
        IN IF s1._expected_global_crc32 = None
           THEN Go(alloc([s1 EXCEPT !._expected_global_crc32 = f.global_crc32]))
           ELSE IF f.global_crc32 # s1._expected_global_crc32
           THEN Ret(_cancel_transfer(create_task(s1, ACK_CHUNK_ERROR, f.chunk_num)))
           ELSE Go(alloc(s1))
    ELSE IF f.chunk_num = 1 /\ ~s._sending_chunks THEN
        LET s1 == [s EXCEPT !._expected_chunks = f.total_chunks]
            alloc(x) == [x EXCEPT !._received_chunks = NoneList(f.total_chunks),
                                  !._received_chunk_count = 0,
                                  !._transfer_in_progress = TRUE]
        IN IF s1._expected_global_crc32 = None
           THEN Go(alloc([s1 EXCEPT !._expected_global_crc32 = f.global_crc32]))
           ELSE IF f.global_crc32 # s1._expected_global_crc32
           THEN Ret(_cancel_transfer(create_task(s1, ACK_CHUNK_ERROR, f.chunk_num)))
           ELSE Go(alloc(s1))
    ELSE IF s._sending_chunks THEN
        IF /\ hasattr(s, "_response_expected_global_crc32")
           /\ f.global_crc32 # s._response_expected_global_crc32
        THEN Ret(s)
        ELSE Go(s)
    ELSE
        IF /\ s._expected_global_crc32 # None
           /\ f.global_crc32 # s._expected_global_crc32
        THEN Ret(_cancel_transfer(create_task(s, ACK_CHUNK_ERROR, f.chunk_num)))
        ELSE Go(s)

\* a handler that takes no chunk for a duplicate
ChunkDuplicateNever(s, f) == Go(s)

\* "Check for duplicate chunks"
ChunkDuplicate(s, f) ==
    LET chunk_index == f.chunk_num - 1 IN
    IF s._sending_chunks THEN
        IF /\ hasattr(s, "_response_chunks")
           /\ s._response_chunks # <<>>
           /\ chunk_index < Len(s._response_chunks)
           /\ s._response_chunks[chunk_index + 1] # NoneSlot
        THEN Ret(create_task(s, ACK_CHUNK_RECEIVED, f.chunk_num))
        ELSE Go(s)
    ELSE
        IF /\ chunk_index < Len(s._received_chunks)
           /\ s._received_chunks[chunk_index + 1] # NoneSlot
        THEN Ret(create_task(s, ACK_CHUNK_RECEIVED, f.chunk_num))
        ELSE Go(s)

\* "Clear response state"
ResponseClear(s) ==
    [delattr(delattr(s, "_response_expected_chunks"),
             "_response_expected_global_crc32")
        EXCEPT !._response_chunks = NoneSlot,
               !._response_chunk_count = 0,
               !._sending_chunks = FALSE]

\* "Store chunk data", receiving response data while sending; the branch always
\* returns.  Reading an attribute that does not exist raises.
ResponseStore(s, f) ==
    IF hasattr(s, "_response_chunks") /\ s._response_chunks # <<>> THEN
        IF f.chunk_num <= Len(s._response_chunks) THEN
            LET s1 == [s EXCEPT !._response_chunks[f.chunk_num] = f.data,
                                !._response_chunk_count = @ + 1]
                s2 == create_task(s1, ACK_CHUNK_RECEIVED, f.chunk_num)
                complete_data == Join(s2._response_chunks)
            IN IF ~hasattr(s1, "_response_expected_chunks") THEN ChunkExcept(s1)
               ELSE IF s2._response_chunk_count = s2._response_expected_chunks THEN
                   IF ~hasattr(s2, "_response_expected_global_crc32")
                   THEN ChunkExcept(s2)
                   ELSE IF _calculate_crc32(complete_data)
                               # s2._response_expected_global_crc32
                   THEN s2
                   ELSE ResponseClear(_data_received_callback(
                            create_task(s2, ACK_TRANSFER_SUCCESS, 0), complete_data))
               ELSE s2
        ELSE s
    ELSE s

\* "Store chunk data", normal chunk reception.  The log line of the global CRC
\* mismatch names calculated_crc32, which is not defined: it raises NameError.
NormalStore(s, f, now) ==
    IF f.chunk_num <= Len(s._received_chunks) THEN
        LET s1 == [s EXCEPT !._received_chunks[f.chunk_num] = f.data,
                            !._received_chunk_count = @ + 1]
            s2 == create_task(s1, ACK_CHUNK_RECEIVED, f.chunk_num)
            s3 == create_task(s2, ACK_TRANSFER_COMPLETE, 0)
            complete_data == Join(s3._received_chunks)
            s4 == [create_task(s3, ACK_TRANSFER_SUCCESS, 0)
                      EXCEPT !._transfer_in_progress = FALSE]
            s5 == _data_received_callback(s4, complete_data)
        IN IF s2._received_chunk_count = s2._expected_chunks THEN
               IF _calculate_crc32(complete_data) # s3._expected_global_crc32
               THEN Ret(ChunkExcept(s3))
               ELSE Go([s5 EXCEPT !._stats.total_data_received = @ + BLen(complete_data),
                                  !._stats.successful_transfers = @ + 1,
                                  !._stats.last_transfer_time = now])
           ELSE Go(s2)
    ELSE Go(s)

ChunkStore(s, f, now) ==
    IF s._sending_chunks THEN Ret(ResponseStore(s, f)) ELSE NormalStore(s, f, now)

\* "Update chunk timer and validate consistency"
ChunkTail(s, f, now) ==
    LET s1 == _update_chunk_timer(s, now) IN
    IF /\ ~s1._sending_chunks
       /\ s1._expected_chunks > 0
       /\ f.total_chunks # s1._expected_chunks
    THEN _cancel_transfer(create_task(s1, ACK_CHUNK_ERROR, f.chunk_num))
    ELSE IF s1._sending_chunks /\ ~hasattr(s1, "_response_expected_chunks")
    THEN setattr(setattr(setattr(
             [s1 EXCEPT !._response_expected_chunks = f.total_chunks,
                        !._response_expected_global_crc32 = f.global_crc32,
                        !._response_chunks = NoneList(f.total_chunks),
                        !._response_chunk_count = 0],
             "_response_expected_chunks"), "_response_expected_global_crc32"),
             "_response_chunks")
    ELSE s1

\* a CRC check that accepts every chunk
ChunkCrcValidAlways(f) == TRUE

\* "Validate CRC32"
ChunkCrcValid(f) == _calculate_crc32(f.data) = f.chunk_crc32

_process_received_chunk(s, f, now) ==
    IF FrameLen(f) < HEADER_SIZE THEN create_task(s, ACK_CHUNK_ERROR, 0)
    ELSE IF ~_validate_chunk_header(f.chunk_num, f.total_chunks, f.data_size, FrameLen(f))
    THEN ChunkReject(s, f.chunk_num)
    ELSE IF FrameLen(f) # HEADER_SIZE + f.data_size
    THEN ChunkReject(s, f.chunk_num)
    ELSE IF ~ChunkCrcValid(f)
    THEN ChunkReject(s, f.chunk_num)
    ELSE LET r1 == ChunkInit(s, f) IN
         IF r1.ret THEN r1.s
         ELSE LET r2 == ChunkDuplicate(r1.s, f) IN
              IF r2.ret THEN r2.s
              ELSE LET r3 == ChunkStore(r2.s, f, now) IN
                   IF r3.ret THEN r3.s
                   ELSE ChunkTail(r3.s, f, now)

-----------------------------------------------------------------------------
(* ChunkedBLEProtocol._process_received_ack                                *)

\* write_gatt_char is a coroutine function and the call is not awaited: the
\* coroutine never runs, nothing is written to the data channel.  Whether the
\* index is valid or the header cannot be built, only the counter has changed.
_retransmit_chunk(s, chunk_number) ==
    [s EXCEPT !._stats.retransmissions = @ + 1]

AckDispatch(s, a, now) ==
    IF a.ack_type = ACK_CHUNK_RECEIVED THEN
        [s EXCEPT !._ack_received_event = TRUE]
    ELSE IF a.ack_type = ACK_CHUNK_ERROR THEN
        _retransmit_chunk(s, a.chunk_number)
    ELSE IF a.ack_type = ACK_TRANSFER_COMPLETE THEN
        LET s1 == setattr(setattr(
                      [s EXCEPT !._response_expected_chunks = a.total_chunks,
                                !._response_expected_global_crc32 = a.global_crc32],
                      "_response_expected_chunks"), "_response_expected_global_crc32")
            s2 == [create_task(s1, ACK_TRANSFER_COMPLETE, 0)
                      EXCEPT !._stats.successful_transfers = @ + 1]
        IN [_reset_receive_state(s2) EXCEPT !._sending_chunks = TRUE]
    ELSE IF a.ack_type = ACK_TRANSFER_SUCCESS THEN
        [s EXCEPT !._stats.successful_transfers = @ + 1,
                  !._stats.last_transfer_time = now]
    ELSE IF a.ack_type = ACK_TRANSFER_FAILED THEN
        [s EXCEPT !._stats.crc_errors = @ + 1]
    ELSE s

_process_received_ack(s, a, now) ==
    IF s._expected_global_crc32 = None
    THEN AckDispatch([s EXCEPT !._expected_global_crc32 = a.global_crc32], a, now)
    ELSE IF a.global_crc32 # s._expected_global_crc32
    THEN _cancel_transfer(s)
    ELSE AckDispatch(s, a, now)

\* The message _send_ack_message builds when its task runs: it reads the
\* receive state as it is then.
AckMessage(s, t) ==
    Ack(t.ack_type, t.chunk_number, s._expected_chunks,
        IF s._expected_global_crc32 = None \/ s._expected_global_crc32 = 0
        THEN 0 ELSE s._expected_global_crc32)

-----------------------------------------------------------------------------
(* Two ChunkedBLEProtocol endpoints and the link between them              *)

Ep == {"A", "B"}
Peer(e) == IF e = "A" THEN "B" ELSE "A"

\* A call of send_data is named by a coroutine id: "A" and "B" are calls on the
\* objects of those names, "A2" is a further call on object "A".
Obj(c) == IF c = "A2" THEN "A" ELSE c

Bytes(v, n) == <<Run(v, n)>>

\* Payloads handed to send_data: one, two and three chunks (the chunks of one
\* payload differ from each other), and one byte more than the size limit.
Payloads ==
    { Bytes(65, 14),
      <<Run(1, 100), Run(2, 69)>>,
      <<Run(1, 200), Run(2, 300)>>,
      Bytes(0, MAX_TOTAL_DATA_SIZE + 1) }

\* Payloads around MAX_CHUNKS_PER_TRANSFER * CHUNK_SIZE, up to the size limit.
BigPayloads ==
    { Bytes(0, MAX_CHUNKS_PER_TRANSFER * CHUNK_SIZE),
      Bytes(0, MAX_CHUNKS_PER_TRANSFER * CHUNK_SIZE + 1),
      Bytes(0, MAX_TOTAL_DATA_SIZE) }

NoFrame == Frame(0, 0, 0, 0, 0, 0, <<>>)
NoAck == Ack(0, 0, 0, 0)
Event(op, e, f, a) == [op |-> op, ep |-> e, frame |-> f, ack |-> a]

RemoveAt(q, k) == [i \in 1..(Len(q) - 1) |-> IF i < k THEN q[i] ELSE q[i + 1]]

\* no RefactoredChunkedBLEProtocol exists in Spec and SpecBig
RInit ==
    /\ rs = 0
    /\ rsend = 0
    /\ rdataCh = 0
    /\ rctrlCh = 0
    /\ rlink = 0
    /\ rhist = 0

InitWith(payloads, drops) ==
    /\ proto = [e \in Ep |-> ProtoInit]
    /\ \E data \in payloads :
          call = [e \in Ep |-> IF e = "A"
                               THEN [pc |-> "idle", data |-> data, i |-> 0, ret |-> "none"]
                               ELSE [pc |-> "none", data |-> <<>>, i |-> 0, ret |-> "none"]]
    /\ dataCh = [e \in Ep |-> <<>>]
    /\ ctrlCh = [e \in Ep |-> <<>>]
    /\ \E d \in drops :
          link = [dropAcks |-> d, dups |-> 0, corrupts |-> 0, pauses |-> 0,
                  reordered |-> FALSE]
    /\ clock = 0
    /\ hist = [written |-> <<>>, acked |-> {}, lateDup |-> FALSE, completes |-> [e \in Ep |-> 0]]
    /\ ev = Event("init", "A", NoFrame, NoAck)
    /\ RInit

Init == InitWith(Payloads, BOOLEAN)

(* send_data, from one suspension point to the next *)

\* "Update statistics" to the return at the end of send_data
SendEpilogue(s, data, now) ==
    LET s1 == [s EXCEPT !._stats.total_data_sent = @ + BLen(data),
                        !._stats.successful_transfers = @ + 1,
                        !._stats.last_transfer_time = now]
    IN IF ~hasattr(s1, "_response_expected_chunks")
       THEN [s1 EXCEPT !._sending_chunks = FALSE]
       ELSE s1

\* One pass of the loop body for the 1-based chunk number i, up to the write
\* on the data channel; s is the object as the loop finds it.
SendIter(e, s, i) ==
    IF _check_chunk_timeout(s, clock) THEN
        /\ proto' = [proto EXCEPT ![Obj(e)] = _cancel_transfer(s)]
        /\ call' = [call EXCEPT ![e].pc = "done", ![e].ret = "False"]
        /\ UNCHANGED <<dataCh, hist>>
    ELSE
        /\ proto' = [proto EXCEPT ![Obj(e)] = _update_chunk_timer(s, clock)]
        /\ dataCh' = [dataCh EXCEPT ![Peer(Obj(e))] =
                          Append(@, ChunkPacket(call[e].data, i))]
        /\ call' = [call EXCEPT ![e].pc = "write", ![e].i = i]
        /\ hist' = [hist EXCEPT !.written = Append(@, i)]

SendFinish(e, s) ==
    /\ proto' = [proto EXCEPT ![Obj(e)] = SendEpilogue(s, call[e].data, clock)]
    /\ call' = [call EXCEPT ![e].pc = "done", ![e].ret = "True"]
    /\ UNCHANGED <<dataCh, hist>>

\* send_data is called: size validation, chunking, and the first pass of the loop
SendStart(e) ==
    /\ call[e].pc = "idle"
    /\ LET data == call[e].data
           s1 == [proto[Obj(e)] EXCEPT !._expected_global_crc32 = _calculate_crc32(data),
                                  !._chunks_to_send = Chunks(data),
                                  !._sending_chunks = TRUE]
       IN IF ~_validate_data_size(BLen(data)) THEN
              /\ call' = [call EXCEPT ![e].pc = "done", ![e].ret = "False"]
              /\ UNCHANGED <<proto, dataCh, hist>>
          ELSE IF TotalChunks(data) = 0 THEN SendFinish(e, s1)
          ELSE SendIter(e, s1, 1)
    /\ ev' = Event("send", e, NoFrame, NoAck)
    /\ UNCHANGED <<ctrlCh, link, clock, rvars>>

\* write_gatt_char returns; the coroutine goes on to asyncio.sleep(0.01)
WriteReturn(e) ==
    /\ call[e].pc = "write"
    /\ call' = [call EXCEPT ![e].pc = "sleep"]
    /\ ev' = Event("written", e, NoFrame, NoAck)
    /\ UNCHANGED <<proto, dataCh, ctrlCh, link, clock, hist, rvars>>

\* the sleep returns: the next pass of the loop, or the end of send_data
SleepReturn(e) ==
    /\ call[e].pc = "sleep"
    /\ IF call[e].i < TotalChunks(call[e].data)
       THEN SendIter(e, proto[Obj(e)], call[e].i + 1)
       ELSE SendFinish(e, proto[Obj(e)])
    /\ ev' = Event("slept", e, NoFrame, NoAck)
    /\ UNCHANGED <<ctrlCh, link, clock, rvars>>

(* notifications and tasks *)

\* the slot of the frame's chunk holds the frame's payload bytes
Stored(s, f) ==
    /\ f.chunk_num \in 1..Len(s._received_chunks)
    /\ s._received_chunks[f.chunk_num] = f.data

\* the faults the link has produced so far
Faults == link.dups + link.corrupts + link.pauses

\* _data_notification_handler on the k-th frame in flight to e; the link may
\* hand a frame over out of order, and may hand it over and keep it (the frame
\* then arrives twice).
DeliverData(e, k, dup) ==
    /\ k \in 1..Len(dataCh[e])
    /\ dup => Faults < MaxFaults
    /\ LET f == dataCh[e][k] IN
         /\ proto' = [proto EXCEPT ![e] =
                         IF FrameLen(f) < HEADER_SIZE THEN @
                         ELSE _process_received_chunk(@, f, clock)]
         /\ ev' = Event("chunk", e, f, NoAck)
    /\ dataCh' = [dataCh EXCEPT ![e] = IF dup THEN @ ELSE RemoveAt(@, k)]
    /\ link' = [link EXCEPT !.dups = IF dup THEN @ + 1 ELSE @,
                            !.reordered = @ \/ (k # 1)]
    /\ hist' = [hist EXCEPT !.lateDup =
                    @ \/ (Stored(proto[e], dataCh[e][k]) /\ ~proto[e]._transfer_in_progress)]
    /\ UNCHANGED <<call, ctrlCh, clock, rvars>>

\* the link alters one payload byte of a frame in flight, not its header
CorruptData(e, k) ==
    /\ k \in 1..Len(dataCh[e])
    /\ Faults < MaxFaults
    /\ dataCh' = [dataCh EXCEPT ![e][k].data = FlipByte(@)]
    /\ link' = [link EXCEPT !.corrupts = @ + 1]
    /\ ev' = Event("corrupt", e, dataCh[e][k], NoAck)
    /\ UNCHANGED <<proto, call, ctrlCh, clock, hist, rvars>>

\* the oldest _send_ack_message task of e runs: it builds the message and
\* writes it on the control channel; a link that drops ACKs loses it.
RunAckTask(e) ==
    /\ proto[e].tasks # <<>>
    /\ Head(proto[e].tasks).ack_type = ACK_TRANSFER_COMPLETE
          => hist.completes[e] < MaxCompleteWrites
    /\ LET msg == AckMessage(proto[e], Head(proto[e].tasks)) IN
         /\ ctrlCh' = [ctrlCh EXCEPT ![Peer(e)] =
                          IF link.dropAcks THEN @ ELSE Append(@, msg)]
         /\ ev' = Event("ack_sent", e, NoFrame, msg)
    /\ proto' = [proto EXCEPT ![e].tasks = Tail(@)]
    /\ hist' = [hist EXCEPT !.completes[e] =
                    IF Head(proto[e].tasks).ack_type = ACK_TRANSFER_COMPLETE
                    THEN @ + 1 ELSE @]
    /\ UNCHANGED <<call, dataCh, link, clock, rvars>>

\* _control_notification_handler on the oldest ACK in flight to e
DeliverAck(e) ==
    /\ ctrlCh[e] # <<>>
    /\ LET a == Head(ctrlCh[e]) IN
         /\ proto' = [proto EXCEPT ![e] = _process_received_ack(@, a, clock)]
         /\ hist' = [hist EXCEPT !.acked =
                        IF e = "A" /\ a.ack_type = ACK_CHUNK_RECEIVED
                        THEN @ \cup {a.chunk_number} ELSE @]
         /\ ev' = Event("ack", e, NoFrame, a)
    /\ ctrlCh' = [ctrlCh EXCEPT ![e] = Tail(@)]
    /\ UNCHANGED <<call, dataCh, link, clock, rvars>>

\* nothing happens for longer than the chunk timeout
Pause ==
    /\ Faults < MaxFaults
    /\ clock' = clock + DEFAULT_CHUNK_TIMEOUT + 1
    /\ link' = [link EXCEPT !.pauses = @ + 1]
    /\ ev' = Event("pause", "A", NoFrame, NoAck)
    /\ UNCHANGED <<proto, call, dataCh, ctrlCh, hist, rvars>>

Next ==
    \/ \E e \in Ep : SendStart(e)
    \/ \E e \in Ep : WriteReturn(e)
    \/ \E e \in Ep : SleepReturn(e)
    \/ \E e \in Ep : \E k \in 1..Len(dataCh[e]) : \E dup \in BOOLEAN : DeliverData(e, k, dup)
    \/ \E e \in Ep : \E k \in 1..Len(dataCh[e]) : CorruptData(e, k)
    \/ \E e \in Ep : RunAckTask(e)
    \/ \E e \in Ep : DeliverAck(e)
    \/ Pause

Spec == Init /\ [][Next]_vars

(* The same endpoints on a lossless, order-preserving link that hands over
   one frame at a time: send_data goes on to its next chunk when the frame it
   wrote and the ACKs that frame caused have been handled. *)

Quiet == \A e \in Ep : dataCh[e] = <<>> /\ ctrlCh[e] = <<>> /\ proto[e].tasks = <<>>

InitBig == InitWith(BigPayloads, {FALSE})

NextBig ==
    \/ SendStart("A")
    \/ WriteReturn("A")
    \/ Quiet /\ SleepReturn("A")
    \/ \E e \in Ep : DeliverData(e, 1, FALSE)
    \/ \E e \in Ep : RunAckTask(e)
    \/ \E e \in Ep : DeliverAck(e)

SpecBig == InitBig /\ [][NextBig]_vars

(* send_data alone, on payloads of every shape: empty, one byte, exactly one
   and two full chunks, a short last chunk, the size limit and one byte more.
   Nothing takes the frames off the data channel. *)
FramingPayloads ==
    { <<>>,
      Bytes(65, 1),
      Bytes(65, CHUNK_SIZE),
      <<Run(1, 100), Run(2, 69)>>,
      <<Run(1, 200), Run(2, 136)>>,
      <<Run(1, 200), Run(2, 300)>>,
      <<Run(7, 30000), Run(8, MAX_TOTAL_DATA_SIZE - 30000)>>,
      Bytes(0, MAX_TOTAL_DATA_SIZE + 1) }

InitF == InitWith(FramingPayloads, {FALSE})

NextF ==
    \/ SendStart("A")
    \/ WriteReturn("A")
    \/ SleepReturn("A")

SpecF == InitF /\ [][NextF]_vars

-----------------------------------------------------------------------------
(* One ChunkedBLEProtocol and a peer that is not one                        *)

(* Object "A" alone: its notification handlers are called with frames and
   ACKs a peer may send (well-formed frames of several transfers, a frame
   whose payload was altered and whose chunk CRC was recomputed, a frame with
   another total_chunks), send_data is called and, when it has returned,
   called once more, and the peer may fall silent for longer than the chunk
   timeout.  The peer takes what "A" writes, and sends its next message when
   it has taken the ACKs of the last one.  Writes do not fail here. *)

MaxFeed == 4       \* frames and ACKs the peer sends in one run
MaxStall == 1      \* silences of the peer longer than the chunk timeout

Co == {"A", "A2"}

OneChunk == Bytes(65, 14)
\* another payload of one chunk
Reply == Bytes(66, 14)
TwoChunks == <<Run(1, 100), Run(2, 69)>>
\* a payload whose first chunk is the first chunk of TwoChunks
SharedFirst == <<Run(1, 100), Run(2, 68), Run(3, 1)>>

\* the frame with one payload byte altered and chunk_crc32 made to fit
Forge(f) ==
    LET d == FlipByte(f.data) IN [f EXCEPT !.data = d, !.chunk_crc32 = _calculate_crc32(d)]

PeerFrames ==
    { ChunkPacket(OneChunk, 1), ChunkPacket(Reply, 1),
      ChunkPacket(TwoChunks, 1), ChunkPacket(TwoChunks, 2),
      ChunkPacket(SharedFirst, 1),
      Forge(ChunkPacket(TwoChunks, 2)),
      [ChunkPacket(TwoChunks, 2) EXCEPT !.total_chunks = 3] }

\* The TRANSFER_COMPLETE a peer sends when it has received what "A" sent
Echo(data) == Ack(ACK_TRANSFER_COMPLETE, 0, TotalChunks(data), _calculate_crc32(data))

\* the ACKs of the peer
PeerAcks ==
    { Ack(ACK_TRANSFER_SUCCESS, 0, TotalChunks(OneChunk), _calculate_crc32(OneChunk)),
      Echo(OneChunk), Echo(TwoChunks) }

InitH ==
    /\ proto = [e \in Ep |-> ProtoInit]
    /\ \E data \in {OneChunk, TwoChunks, Bytes(0, MAX_TOTAL_DATA_SIZE + 1)} :
          call = [c \in Co |-> [pc |-> "idle",
                                data |-> IF c = "A" THEN data ELSE OneChunk,
                                i |-> 0, ret |-> "none"]]
    /\ dataCh = [e \in Ep |-> <<>>]
    /\ ctrlCh = [e \in Ep |-> <<>>]
    /\ link = [dropAcks |-> FALSE, dups |-> 0, corrupts |-> 0, pauses |-> 0,
               reordered |-> FALSE]
    /\ clock = 0
    /\ hist = [written |-> <<>>, acked |-> {}, lateDup |-> FALSE,
               completes |-> [e \in Ep |-> 0], fed |-> 0, stalls |-> 0, sends |-> 0,
               heads |-> {}, stage |-> 0]
    /\ ev = Event("init", "A", NoFrame, NoAck)
    /\ RInit

\* the handler passes the checks of frame f
Accepts(s, f) ==
    /\ _validate_chunk_header(f.chunk_num, f.total_chunks, f.data_size, FrameLen(f))
    /\ ChunkCrcValid(f)

\* the handler allocates a new list of slots for frame f
Allocates(s, f) ==
    /\ Accepts(s, f)
    /\ \/ s._sending_chunks /\ ~hasattr(s, "_response_chunks")
       \/ f.chunk_num = 1 /\ ~s._sending_chunks
    /\ ~ChunkInit(s, f).ret

\* the handler puts the payload of frame f into a slot
Stores(s, f) ==
    /\ Accepts(s, f)
    /\ LET r1 == ChunkInit(s, f)
           r2 == ChunkDuplicate(r1.s, f)
       IN /\ ~r1.ret
          /\ ~r2.ret
          /\ IF r2.s._sending_chunks
             THEN /\ hasattr(r2.s, "_response_chunks")
                  /\ r2.s._response_chunks # <<>>
                  /\ f.chunk_num <= Len(r2.s._response_chunks)
             ELSE f.chunk_num <= Len(r2.s._received_chunks)

\* send_data has returned True on "A"
Sent == call["A"].pc = "done" /\ call["A"].ret = "True"

(* hist.stage follows two exchanges in which the peer does nothing but answer:
   0, 1 when the peer has answered the sent payload with TRANSFER_COMPLETE,
   2 when the response (the payload sent back) has been delivered, 3 when
   send_data is called again, 4 when the peer has answered that with
   TRANSFER_COMPLETE.  It stays where it is when anything else happens. *)
StageAfterAck(a) ==
    IF /\ Sent
       /\ a = Echo(call["A"].data)
       /\ \/ hist.stage = 0 /\ hist.fed = 0 /\ hist.sends = 0
          \/ hist.stage = 3 /\ hist.fed = 2
    THEN hist.stage + 1 ELSE hist.stage

StageAfterChunk(f) ==
    IF /\ hist.stage = 1 /\ hist.fed = 1 /\ hist.sends = 0
       /\ f = ChunkPacket(call["A"].data, 1)
       /\ _process_received_chunk(proto["A"], f, clock).delivered = <<call["A"].data>>
    THEN 2 ELSE hist.stage

\* _data_notification_handler of "A" is called with frame f; hist.heads keeps
\* the global_crc32 fields of the frames stored in the present list of slots
PeerChunk(f) ==
    /\ hist.fed < MaxFeed
    /\ proto["A"].tasks = <<>>
    /\ proto' = [proto EXCEPT !["A"] =
                    IF FrameLen(f) < HEADER_SIZE THEN @
                    ELSE _process_received_chunk(@, f, clock)]
    /\ ev' = Event("chunk", "A", f, NoAck)
    /\ hist' = [hist EXCEPT !.fed = @ + 1,
                            !.stage = StageAfterChunk(f),
                            !.heads = (IF Allocates(proto["A"], f) THEN {} ELSE @)
                                      \cup (IF Stores(proto["A"], f)
                                            THEN {f.global_crc32} ELSE {})]
    /\ UNCHANGED <<call, dataCh, ctrlCh, link, clock, rvars>>

\* _control_notification_handler of "A" is called with ACK a
PeerAck(a) ==
    /\ hist.fed < MaxFeed
    /\ proto["A"].tasks = <<>>
    /\ proto' = [proto EXCEPT !["A"] = _process_received_ack(@, a, clock)]
    /\ ev' = Event("ack", "A", NoFrame, a)
    /\ hist' = [hist EXCEPT !.fed = @ + 1, !.stage = StageAfterAck(a)]
    /\ UNCHANGED <<call, dataCh, ctrlCh, link, clock, rvars>>

\* the oldest _send_ack_message task of "A" runs; the peer takes the message
TakeAck ==
    /\ proto["A"].tasks # <<>>
    /\ ev' = Event("ack_sent", "A", NoFrame, AckMessage(proto["A"], Head(proto["A"].tasks)))
    /\ proto' = [proto EXCEPT !["A"].tasks = Tail(@)]
    /\ UNCHANGED <<call, dataCh, ctrlCh, link, clock, hist, rvars>>

\* an except clause that returns False and leaves _sending_chunks set
WriteErrorKeepsSending(c) ==
    /\ call[c].pc = "write"
    /\ proto' = proto
    /\ call' = [call EXCEPT ![c].pc = "done", ![c].ret = "False"]
    /\ ev' = Event("write_error", c, NoFrame, NoAck)
    /\ UNCHANGED <<dataCh, ctrlCh, link, clock, hist, rvars>>

\* write_gatt_char raises in call c: the except clause of send_data
WriteError(c) ==
    /\ call[c].pc = "write"
    /\ proto' = [proto EXCEPT ![Obj(c)]._sending_chunks = FALSE]
    /\ call' = [call EXCEPT ![c].pc = "done", ![c].ret = "False"]
    /\ ev' = Event("write_error", c, NoFrame, NoAck)
    /\ UNCHANGED <<dataCh, ctrlCh, link, clock, hist, rvars>>

\* the peer sends nothing for longer than the chunk timeout
Stall ==
    /\ hist.stalls < MaxStall
    /\ proto["A"].tasks = <<>>
    /\ clock' = clock + DEFAULT_CHUNK_TIMEOUT + 1
    /\ hist' = [hist EXCEPT !.stalls = @ + 1]
    /\ ev' = Event("pause", "A", NoFrame, NoAck)
    /\ UNCHANGED <<proto, call, dataCh, ctrlCh, link, rvars>>

\* send_data has returned and is called once more, with a one-chunk payload
SendAgain ==
    /\ call["A"].pc = "done"
    /\ hist.sends < 1
    /\ call' = [call EXCEPT !["A"] = [pc |-> "idle", data |-> OneChunk,
                                      i |-> 0, ret |-> "none"]]
    /\ hist' = [hist EXCEPT !.sends = @ + 1,
                            !.stage = IF @ = 2 THEN 3 ELSE @]
    /\ ev' = Event("again", "A", NoFrame, NoAck)
    /\ UNCHANGED <<proto, dataCh, ctrlCh, link, clock, rvars>>

NextH ==
    \/ SendStart("A")
    \/ WriteReturn("A")
    \/ SleepReturn("A")
    \/ SendAgain
    \/ \E f \in PeerFrames : PeerChunk(f)
    \/ \E a \in PeerAcks : PeerAck(a)
    \/ TakeAck
    \/ Stall

SpecH == InitH /\ [][NextH]_vars

(* Object "A" with two calls of send_data in flight at once ("A" and "A2"),
   writes that may raise, and a link that may stall; nothing is received. *)
NextC ==
    \/ \E c \in Co : SendStart(c)
    \/ \E c \in Co : WriteReturn(c)
    \/ \E c \in Co : SleepReturn(c)
    \/ \E c \in Co : WriteError(c)
    \/ Stall

SpecC == InitH /\ [][NextC]_vars

(* One call of send_data, on payloads of every shape, whose writes may raise. *)
NextW ==
    \/ SendStart("A")
    \/ WriteReturn("A")
    \/ SleepReturn("A")
    \/ WriteError("A")

SpecW == InitF /\ [][NextW]_vars

(* Object "A" receiving while the user waits in receive_data.  The call is
   kept as call["recv"]: i is the number of payloads that had been delivered
   when it was made, data is what it returns. *)
InitV ==
    /\ proto = [e \in Ep |-> ProtoInit]
    /\ call = [c \in {"A", "recv"} |->
                  [pc |-> "idle", data |-> <<>>, i |-> 0, ret |-> "none"]]
    /\ dataCh = [e \in Ep |-> <<>>]
    /\ ctrlCh = [e \in Ep |-> <<>>]
    /\ link = [dropAcks |-> FALSE, dups |-> 0, corrupts |-> 0, pauses |-> 0,
               reordered |-> FALSE]
    /\ clock = 0
    /\ hist = [written |-> <<>>, acked |-> {}, lateDup |-> FALSE,
               completes |-> [e \in Ep |-> 0], fed |-> 0, stalls |-> 0, sends |-> 0,
               heads |-> {}, stage |-> 0]
    /\ ev = Event("init", "A", NoFrame, NoAck)
    /\ RInit

\* receive_data is called: it waits for _complete_data_event with a deadline
ReceiveStart ==
    /\ call["recv"].pc = "idle"
    /\ call' = [call EXCEPT !["recv"].pc = "wait",
                            !["recv"].i = Len(proto["A"].delivered)]
    /\ ev' = Event("receive", "A", NoFrame, NoAck)
    /\ UNCHANGED <<proto, dataCh, ctrlCh, link, clock, hist, rvars>>

\* asyncio.wait_for returns: the event is set and receive_data returns
\* _received_data and clears both, or the deadline has elapsed with the event
\* not set and receive_data returns None
ReceiveReturn ==
    /\ call["recv"].pc = "wait"
    /\ IF proto["A"]._complete_data_event
       THEN /\ call' = [call EXCEPT !["recv"].pc = "done",
                                    !["recv"].ret = IF proto["A"]._received_data = NoneSlot
                                                    THEN "None" ELSE "data",
                                    !["recv"].data = proto["A"]._received_data]
            /\ proto' = [proto EXCEPT !["A"]._received_data = NoneSlot,
                                      !["A"]._complete_data_event = FALSE]
            /\ ev' = Event("received", "A", NoFrame, NoAck)
       ELSE /\ call' = [call EXCEPT !["recv"].pc = "done", !["recv"].ret = "None"]
            /\ proto' = proto
            /\ ev' = Event("receive_timeout", "A", NoFrame, NoAck)
    /\ UNCHANGED <<dataCh, ctrlCh, link, clock, hist, rvars>>

NextV ==
    \/ ReceiveStart
    \/ ReceiveReturn
    \/ \E f \in PeerFrames : PeerChunk(f)
    \/ TakeAck

SpecV == InitV /\ [][NextV]_vars

(* Object "A" sending to a peer that reports chunks in error: every ACK of
   the peer is a CHUNK_RECEIVED or a CHUNK_ERROR for a chunk that "A" has
   written, with the payload's global CRC. *)
ChunkAck(t, data, i) == Ack(t, i, TotalChunks(data), _calculate_crc32(data))

NextE ==
    \/ SendStart("A")
    \/ WriteReturn("A")
    \/ SleepReturn("A")
    \/ \E i \in 1..2, t \in {ACK_CHUNK_RECEIVED, ACK_CHUNK_ERROR} :
          /\ \E k \in 1..Len(hist.written) : hist.written[k] = i
          /\ PeerAck(ChunkAck(t, call["A"].data, i))

SpecE == InitH /\ [][NextE]_vars

(* Object "A" receiving frames whose headers announce a transfer beyond the
   limits, next to frames of transfers within them. *)
TooManyBytes == [ChunkPacket(TwoChunks, 1) EXCEPT !.total_data_size = MAX_TOTAL_DATA_SIZE + 1]
TooManyChunks == [ChunkPacket(TwoChunks, 1) EXCEPT !.total_chunks = MAX_CHUNKS_PER_TRANSFER + 1]

LimitFrames ==
    { ChunkPacket(OneChunk, 1), ChunkPacket(TwoChunks, 1), ChunkPacket(TwoChunks, 2),
      TooManyBytes, TooManyChunks }

NextL ==
    \/ \E f \in LimitFrames : PeerChunk(f)
    \/ TakeAck

SpecL == InitV /\ [][NextL]_vars

(* Object "A" sending and receiving: the peer sends frames of two payloads,
   among them a duplicate-prone first frame, a frame with another
   total_chunks and a frame with an altered payload, and answers what "A"
   sends with TRANSFER_COMPLETE, so that both lists of slots are used. *)
SlotFrames ==
    { ChunkPacket(OneChunk, 1), ChunkPacket(TwoChunks, 1), ChunkPacket(TwoChunks, 2),
      [ChunkPacket(TwoChunks, 2) EXCEPT !.total_chunks = 3],
      Forge(ChunkPacket(TwoChunks, 2)) }

NextS ==
    \/ SendStart("A")
    \/ WriteReturn("A")
    \/ SleepReturn("A")
    \/ \E f \in SlotFrames : PeerChunk(f)
    \/ \E a \in {Echo(OneChunk), Echo(TwoChunks)} : PeerAck(a)
    \/ TakeAck

SpecS == InitH /\ [][NextS]_vars

-----------------------------------------------------------------------------
(* RefactoredChunkedBLEProtocol                                            *)

MaxDropK == 3      \* the link drops the first k ACKs of a chunk, k in 0..MaxDropK
MaxInject == 1     \* ACKs that reach the sender without a frame having caused them

\* The fields set by __init__; tasks are the control-channel writes that
\* _send_ack created with asyncio.create_task, delivered the calls of on_data.
RProtoInit ==
    [_ack_event |-> FALSE,
     _received_event |-> FALSE,
     _expected_ack |-> 0,
     _last_ack |-> 0,
     _incoming_chunks |-> <<>>,
     _incoming_total |-> 0,
     _incoming_crc |-> 0,
     _received_data |-> NoneSlot,
     max_retries |-> DEFAULT_MAX_RETRIES,
     tasks |-> <<>>,
     delivered |-> <<>>]

\* the message is packed when _send_ack is called, with the receive state of
\* that moment; the write itself is a task
_send_ack(s, ack_type, chunk_num) ==
    [s EXCEPT !.tasks = Append(@, Ack(ack_type, chunk_num, s._incoming_total,
                                      s._incoming_crc))]

_on_control(s, a) ==
    LET s1 == [s EXCEPT !._last_ack = a.chunk_number, !._ack_event = TRUE]
    IN IF a.ack_type = ACK_TRANSFER_SUCCESS
       THEN [s1 EXCEPT !._received_event = TRUE]
       ELSE s1

AllPresent(chunks) == \A k \in 1..Len(chunks) : chunks[k] # NoneSlot

_on_data(s, f) ==
    IF FrameLen(f) < HEADER_SIZE THEN s
    ELSE
    LET chunk_data == Slice(f.data, 0, f.data_size)
        s1 == IF s._incoming_total = 0
              THEN [s EXCEPT !._incoming_total = f.total_chunks,
                             !._incoming_crc = f.global_crc32,
                             !._incoming_chunks = NoneList(f.total_chunks)]
              ELSE s
        s2 == _send_ack([s1 EXCEPT !._incoming_chunks[f.chunk_num] = chunk_data],
                        ACK_CHUNK_RECEIVED, f.chunk_num)
        complete == Join(s2._incoming_chunks)
    IN IF 1 <= f.chunk_num /\ f.chunk_num <= s1._incoming_total THEN
           IF AllPresent(s2._incoming_chunks)
              /\ _calculate_crc32(complete) = s2._incoming_crc
           THEN [_send_ack(s2, ACK_TRANSFER_SUCCESS, 0)
                    EXCEPT !._received_data = complete,
                           !._received_event = TRUE,
                           !.delivered = Append(@, complete)]
           ELSE s2
       ELSE s1

RPayloads == { <<>>, Bytes(65, 14), <<Run(1, 100), Run(2, 69)>> }

\* ACKs a peer may send that no frame of this transfer asked for
InjectAcks ==
    { Ack(t, n, 0, 0) : t \in {ACK_CHUNK_RECEIVED, ACK_CHUNK_ERROR, ACK_TRANSFER_FAILED},
                        n \in 0..2 }

\* no ChunkedBLEProtocol exists in SpecR
CIdle ==
    /\ proto = 0
    /\ call = 0
    /\ dataCh = 0
    /\ ctrlCh = 0
    /\ link = 0
    /\ clock = 0
    /\ hist = 0
    /\ ev = 0

InitR ==
    /\ rs = [e \in Ep |-> RProtoInit]
    /\ \E data \in RPayloads :
          rsend = [pc |-> "idle", data |-> data, i |-> 0, attempt |-> 0, ret |-> "none"]
    /\ rdataCh = [e \in Ep |-> <<>>]
    /\ rctrlCh = [e \in Ep |-> <<>>]
    /\ \E k \in 0..MaxDropK :
          rlink = [k |-> k, dropped |-> [n \in 0..2 |-> 0], injected |-> 0]
    /\ rhist = [writes |-> [n \in 1..2 |-> 0], sinceClear |-> {}, finalAck |-> FALSE]
    /\ CIdle

RQuiet ==
    \A e \in Ep : rdataCh[e] = <<>> /\ rctrlCh[e] = <<>> /\ rs[e].tasks = <<>>

RTotal == TotalChunks(rsend.data)

\* one pass of the loop of _send_with_ack up to the write: the frame of chunk
\* n goes onto the data channel
RWrite(n, attempt) ==
    /\ rdataCh' = [rdataCh EXCEPT !["B"] = Append(@, ChunkPacket(rsend.data, n))]
    /\ rsend' = [rsend EXCEPT !.pc = "write", !.i = n, !.attempt = attempt]
    /\ rhist' = [rhist EXCEPT !.writes[n] = @ + 1]

\* the wait of _send_with_ack ended without a matching ACK: the next pass of
\* the loop, or False when range(max_retries) is used up
RRetry ==
    IF rsend.attempt + 1 < rs["A"].max_retries
    THEN RWrite(rsend.i, rsend.attempt + 1) /\ UNCHANGED rs
    ELSE /\ rsend' = [rsend EXCEPT !.pc = "done", !.ret = "False"]
         /\ UNCHANGED <<rs, rdataCh, rhist>>

\* send_data is called
RSendStart ==
    /\ rsend.pc = "idle"
    /\ IF RTotal = 0
       THEN /\ rs' = [rs EXCEPT !["A"]._expected_ack = 0]
            /\ rsend' = [rsend EXCEPT !.pc = "final"]
            /\ UNCHANGED <<rdataCh, rhist>>
       ELSE RWrite(1, 0) /\ UNCHANGED rs
    /\ UNCHANGED <<rctrlCh, rlink, cvars>>

\* write_gatt_char returns: the event is cleared and the wait begins
RWriteReturn ==
    /\ rsend.pc = "write"
    /\ rs' = [rs EXCEPT !["A"]._ack_event = FALSE, !["A"]._expected_ack = rsend.i]
    /\ rsend' = [rsend EXCEPT !.pc = "wait"]
    /\ rhist' = [rhist EXCEPT !.sinceClear = {}]
    /\ UNCHANGED <<rdataCh, rctrlCh, rlink, cvars>>

\* the event is set: the wait of _send_with_ack returns
RWake ==
    /\ rsend.pc = "wait"
    /\ rs["A"]._ack_event
    /\ IF rs["A"]._last_ack = rsend.i
       THEN IF rsend.i < RTotal
            THEN RWrite(rsend.i + 1, 0) /\ UNCHANGED rs
            ELSE /\ rs' = [rs EXCEPT !["A"]._expected_ack = 0]
                 /\ rsend' = [rsend EXCEPT !.pc = "final"]
                 /\ UNCHANGED <<rdataCh, rhist>>
       ELSE RRetry
    /\ UNCHANGED <<rctrlCh, rlink, cvars>>

\* ack_timeout passes with the event not set; the timeout is longer than the
\* time the link and the peer take, so nothing is on its way any more
RTimeout ==
    /\ rsend.pc = "wait"
    /\ ~rs["A"]._ack_event
    /\ RQuiet
    /\ RRetry
    /\ UNCHANGED <<rctrlCh, rlink, cvars>>

\* "wait for final ack": the event is set
RFinalWake ==
    /\ rsend.pc = "final"
    /\ rs["A"]._ack_event
    /\ rsend' = [rsend EXCEPT !.pc = "done", !.ret = "True"]
    /\ UNCHANGED <<rs, rdataCh, rctrlCh, rlink, rhist, cvars>>

RFinalTimeout ==
    /\ rsend.pc = "final"
    /\ ~rs["A"]._ack_event
    /\ RQuiet
    /\ rsend' = [rsend EXCEPT !.pc = "done", !.ret = "False"]
    /\ UNCHANGED <<rs, rdataCh, rctrlCh, rlink, rhist, cvars>>

\* the data notification of e
ROnData(e) ==
    /\ rdataCh[e] # <<>>
    /\ rs' = [rs EXCEPT ![e] = _on_data(@, Head(rdataCh[e]))]
    /\ rdataCh' = [rdataCh EXCEPT ![e] = Tail(@)]
    /\ UNCHANGED <<rsend, rctrlCh, rlink, rhist, cvars>>

\* the oldest write task of e runs; the link drops the first k ACKs that name
\* a chunk
RRunAckTask(e) ==
    /\ rs[e].tasks # <<>>
    /\ LET msg == Head(rs[e].tasks)
           drop == msg.chunk_number >= 1 /\ rlink.dropped[msg.chunk_number] < rlink.k
       IN /\ rctrlCh' = [rctrlCh EXCEPT ![Peer(e)] = IF drop THEN @ ELSE Append(@, msg)]
          /\ rlink' = [rlink EXCEPT !.dropped[msg.chunk_number] =
                          IF drop THEN @ + 1 ELSE @]
    /\ rs' = [rs EXCEPT ![e].tasks = Tail(@)]
    /\ UNCHANGED <<rsend, rdataCh, rhist, cvars>>

\* the control notification of e
ROnControl(e) ==
    /\ rctrlCh[e] # <<>>
    /\ LET a == Head(rctrlCh[e]) IN
         /\ rs' = [rs EXCEPT ![e] = _on_control(@, a)]
         /\ rhist' = IF e = "A"
                     THEN [rhist EXCEPT !.sinceClear = @ \cup {a},
                              !.finalAck = @ \/ (/\ rsend.pc = "final"
                                                 /\ a.chunk_number = 0
                                                 /\ a.ack_type \in {ACK_TRANSFER_COMPLETE,
                                                                    ACK_TRANSFER_SUCCESS})]
                     ELSE rhist
    /\ rctrlCh' = [rctrlCh EXCEPT ![e] = Tail(@)]
    /\ UNCHANGED <<rsend, rdataCh, rlink, cvars>>

\* an ACK that no frame caused reaches the sender's control channel
RInject(a) ==
    /\ rlink.injected < MaxInject
    /\ rsend.pc \in {"write", "wait", "final"}
    /\ rctrlCh' = [rctrlCh EXCEPT !["A"] = Append(@, a)]
    /\ rlink' = [rlink EXCEPT !.injected = @ + 1]
    /\ UNCHANGED <<rs, rsend, rdataCh, rhist, cvars>>

NextR ==
    \/ RSendStart
    \/ RWriteReturn
    \/ RWake
    \/ RTimeout
    \/ RFinalWake
    \/ RFinalTimeout
    \/ \E e \in Ep : ROnData(e)
    \/ \E e \in Ep : RRunAckTask(e)
    \/ \E e \in Ep : ROnControl(e)
    \/ \E a \in InjectAcks : RInject(a)

SpecR == InitR /\ [][NextR]_vars

(* The same sender and receiver, with receive_data called on either. *)

\* receive_data of e returns before its deadline: the wait on _received_event
\* is over, the event is cleared and _received_data handed out
RReceiveData(e) ==
    /\ rs[e]._received_event
    /\ rs' = [rs EXCEPT ![e]._received_event = FALSE,
                        ![e]._received_data = NoneSlot]
    /\ UNCHANGED <<rsend, rdataCh, rctrlCh, rlink, rhist, cvars>>

NextRV ==
    \/ NextR
    \/ \E e \in Ep : RReceiveData(e)

SpecRV == InitR /\ [][NextRV]_vars

-----------------------------------------------------------------------------
(* ChunkedBLEProtocol of chunked_ble.py: request, chunks, done              *)

(* One object of the simple protocol in SpecQ.  proto is the object, call
   the invocations of send_data, ctrlCh the control messages the peer has
   not answered yet, dataCh what was written on the data characteristic.
   The peer answers the control messages in order, each with the ACK or the
   NAK of its kind, as late as it likes; the user may call send_data twice
   and cancel_current_transfer.  Every message carries, for the properties
   only, the call it belongs to. *)

CONTROL_REQUEST == 1
CONTROL_REQUEST_ACK == 2
CONTROL_REQUEST_NAK == 3
CONTROL_DONE == 4
CONTROL_DONE_ACK == 5
CONTROL_DONE_NAK == 6

MaxCancel == 1     \* calls of cancel_current_transfer
mtu_size == 23     \* client.mtu_size

SimpleCalls == {"S1", "S2"}
SimplePayloads == { Bytes(65, 14), Bytes(66, 30) }

packet_size == mtu_size - 3

\* chunks of send_data: data_bytes[i:i + packet_size] for i in range(0, total_size, packet_size)
SimpleTotal(data) == (BLen(data) + packet_size - 1) \div packet_size
SimpleChunk(data, n) ==
    Slice(data, (n - 1) * packet_size, Min((n - 1) * packet_size + packet_size, BLen(data)))

SimpleIdle ==
    /\ link = 0
    /\ clock = 0
    /\ RInit

InitQ ==
    /\ proto = [transfer_in_progress |-> FALSE,
                response_queue |-> <<>>,
                stats |-> [bytes_sent |-> 0, chunks_sent |-> 0]]
    /\ call \in [SimpleCalls -> { [pc |-> "idle", data |-> d, i |-> 0, ret |-> "none",
                                   request |-> 0, done |-> 0] : d \in SimplePayloads }]
    /\ dataCh = <<>>
    /\ ctrlCh = <<>>
    /\ hist = [cancels |-> 0]
    /\ ev = [op |-> "init", of |-> "S1"]
    /\ SimpleIdle

\* what the peer's answer was, and to which call's message, for an item of
\* response_queue; 0 when none was taken
Answer(item) == [msg |-> item.msg, of |-> item.of]

\* the return statements of send_data inside try: finally clears the flag
SimpleReturn(c, ret) ==
    /\ call' = [call EXCEPT ![c].pc = "done", ![c].ret = ret]
    /\ proto' = [proto EXCEPT !.transfer_in_progress = FALSE]

\* send_data is called: the guard, the flag, and the write of the packet size
SimpleStart(c) ==
    /\ call[c].pc = "idle"
    /\ IF proto.transfer_in_progress
       THEN /\ call' = [call EXCEPT ![c].pc = "done", ![c].ret = "False"]
            /\ UNCHANGED <<proto, dataCh>>
       ELSE /\ proto' = [proto EXCEPT !.transfer_in_progress = TRUE]
            /\ dataCh' = Append(dataCh, [of |-> c, n |-> 0, data |-> <<>>])
            /\ call' = [call EXCEPT ![c].pc = "size"]
    /\ ev' = [op |-> "send", of |-> c]
    /\ UNCHANGED <<ctrlCh, link, clock, hist, rvars>>

\* the write of the packet size returns: CONTROL_REQUEST is written, and the
\* call sleeps and then waits on response_queue
SimpleRequest(c) ==
    /\ call[c].pc = "size"
    /\ ctrlCh' = Append(ctrlCh, [msg |-> CONTROL_REQUEST, of |-> c])
    /\ call' = [call EXCEPT ![c].pc = "wait_request"]
    /\ ev' = [op |-> "request", of |-> c]
    /\ UNCHANGED <<proto, dataCh, link, clock, hist, rvars>>

\* the write of chunk n of call c, or of CONTROL_DONE when the chunks are out
SimpleWrite(c, n) ==
    IF n <= SimpleTotal(call[c].data)
    THEN /\ dataCh' = Append(dataCh, [of |-> c, n |-> n, data |-> SimpleChunk(call[c].data, n)])
         /\ UNCHANGED ctrlCh
    ELSE /\ ctrlCh' = Append(ctrlCh, [msg |-> CONTROL_DONE, of |-> c])
         /\ UNCHANGED dataCh

\* response_queue.get() returns an item
SimpleGet(c) ==
    /\ call[c].pc \in {"wait_request", "wait_done"}
    /\ proto.response_queue # <<>>
    /\ LET item == Head(proto.response_queue)
           q == Tail(proto.response_queue)
       IN IF call[c].pc = "wait_request" THEN
              IF item.response = "ack"
              THEN /\ proto' = [proto EXCEPT !.response_queue = q]
                   /\ call' = [call EXCEPT ![c].request = Answer(item),
                                           ![c].i = 1,
                                           ![c].pc = IF SimpleTotal(call[c].data) >= 1
                                                     THEN "chunk" ELSE "wait_done"]
                   /\ SimpleWrite(c, 1)
              ELSE /\ call' = [call EXCEPT ![c].request = Answer(item),
                                           ![c].pc = "done", ![c].ret = "False"]
                   /\ proto' = [proto EXCEPT !.response_queue = q,
                                             !.transfer_in_progress = FALSE]
                   /\ UNCHANGED <<dataCh, ctrlCh>>
          ELSE /\ call' = [call EXCEPT ![c].done = Answer(item),
                                       ![c].pc = "done",
                                       ![c].ret = IF item.response = "ack"
                                                  THEN "True" ELSE "False"]
               /\ proto' = [proto EXCEPT !.response_queue = q,
                                         !.transfer_in_progress = FALSE]
               /\ UNCHANGED <<dataCh, ctrlCh>>
    /\ ev' = [op |-> "get", of |-> c]
    /\ UNCHANGED <<link, clock, hist, rvars>>

\* asyncio.wait_for on the empty queue times out
SimpleTimeout(c) ==
    /\ call[c].pc \in {"wait_request", "wait_done"}
    /\ proto.response_queue = <<>>
    /\ SimpleReturn(c, "False")
    /\ ev' = [op |-> "timeout", of |-> c]
    /\ UNCHANGED <<dataCh, ctrlCh, link, clock, hist, rvars>>

\* the write of a chunk returns: statistics, then the next write
SimpleChunkWritten(c) ==
    /\ call[c].pc = "chunk"
    /\ proto' = [proto EXCEPT !.stats.bytes_sent =
                                  @ + BLen(SimpleChunk(call[c].data, call[c].i)),
                              !.stats.chunks_sent = @ + 1]
    /\ call' = [call EXCEPT ![c].i = @ + 1,
                            ![c].pc = IF call[c].i < SimpleTotal(call[c].data)
                                      THEN "chunk" ELSE "wait_done"]
    /\ SimpleWrite(c, call[c].i + 1)
    /\ ev' = [op |-> "written", of |-> c]
    /\ UNCHANGED <<link, clock, hist, rvars>>

\* _control_notification_handler: the item put on response_queue for a
\* control message of the peer, none for any other message
ControlResponse(data) ==
    IF data = CONTROL_REQUEST_ACK THEN "ack"
    ELSE IF data = CONTROL_REQUEST_NAK THEN "nak"
    ELSE IF data = CONTROL_DONE_ACK THEN "ack"
    ELSE IF data = CONTROL_DONE_NAK THEN "nak"
    ELSE "none"

\* the peer answers the oldest control message with data, and the
\* notification handler runs
PeerAnswer(data) ==
    /\ ctrlCh # <<>>
    /\ data \in IF Head(ctrlCh).msg = CONTROL_REQUEST
                THEN {CONTROL_REQUEST_ACK, CONTROL_REQUEST_NAK}
                ELSE {CONTROL_DONE_ACK, CONTROL_DONE_NAK}
    /\ ctrlCh' = Tail(ctrlCh)
    /\ proto' = [proto EXCEPT !.response_queue =
                     Append(@, [response |-> ControlResponse(data),
                                msg |-> data, of |-> Head(ctrlCh).of])]
    /\ ev' = [op |-> "answer", of |-> Head(ctrlCh).of]
    /\ UNCHANGED <<call, dataCh, link, clock, hist, rvars>>

\* cancel_current_transfer
SimpleCancel ==
    /\ hist.cancels < MaxCancel
    /\ proto' = [proto EXCEPT !.transfer_in_progress = FALSE]
    /\ hist' = [hist EXCEPT !.cancels = @ + 1]
    /\ ev' = [op |-> "cancel", of |-> "S1"]
    /\ UNCHANGED <<call, dataCh, ctrlCh, link, clock, rvars>>

NextQ ==
    \/ \E c \in SimpleCalls : SimpleStart(c)
    \/ \E c \in SimpleCalls : SimpleRequest(c)
    \/ \E c \in SimpleCalls : SimpleGet(c)
    \/ \E c \in SimpleCalls : SimpleTimeout(c)
    \/ \E c \in SimpleCalls : SimpleChunkWritten(c)
    \/ \E data \in CONTROL_REQUEST_ACK..CONTROL_DONE_NAK : PeerAnswer(data)
    \/ SimpleCancel

SpecQ == InitQ /\ [][NextQ]_vars

-----------------------------------------------------------------------------
(* Properties of ChunkedBLEProtocol                                        *)

Payload == call["A"].data
Sendable(data) == 0 < BLen(data) /\ BLen(data) <= MAX_TOTAL_DATA_SIZE
LastWritten == hist.written[Len(hist.written)]
WritesOf(n) == Cardinality({k \in 1..Len(hist.written) : hist.written[k] = n})

\* C1 - Round trip: once send_data has returned and every frame and ACK on the
\* lossless, order-preserving link has been handled, the receiver has delivered
\* the payload exactly once, for every payload of 1..MAX_TOTAL_DATA_SIZE bytes.
C1_RoundTrip ==
    (call["A"].pc = "done" /\ Quiet /\ Sendable(Payload))
        => proto["B"].delivered = <<Payload>>

\* C2 - send_data writes the chunks in the order 1..total_chunks, and writes
\* chunk i+1 only after a CHUNK_RECEIVED ACK naming chunk i has been received.
C2_AckBeforeNextChunk ==
    [][hist'.written # hist.written =>
          LET n == hist'.written[Len(hist'.written)] IN
            /\ n = Len(hist'.written)
            /\ n > 1 => (n - 1) \in hist.acked]_vars

\* C5 - On a link that drops every ACK send_data returns False after at most
\* MAX_RETRIES transmissions of the first chunk, and send_data never returns
\* True when no chunk was acknowledged.
C5_NoAckNoSuccess ==
    (call["A"].pc = "done" /\ (link.dropAcks \/ hist.acked = {}))
        => (call["A"].ret = "False" /\ WritesOf(1) <= DEFAULT_MAX_RETRIES)

\* a frame that re-delivers the chunk stored in its slot of the active transfer
Redelivery(s, f) ==
    /\ s._transfer_in_progress
    /\ ~s._sending_chunks
    /\ f.chunk_num \in 1..Len(s._received_chunks)
    /\ s._received_chunks[f.chunk_num] = f.data
    /\ f.total_chunks = s._expected_chunks
    /\ f.global_crc32 = s._expected_global_crc32
    /\ _calculate_crc32(f.data) = f.chunk_crc32

\* the link did nothing to the transfer but deliver frames twice, and each
\* second delivery came while the transfer was active
OnlyDuplicates ==
    /\ link.corrupts = 0
    /\ ~hist.lateDup
    /\ ~link.reordered
    /\ call["A"].pc = "done"
    /\ call["A"].ret = "True"
    /\ dataCh["B"] = <<>>

\* C8 - Re-delivering a stored chunk of the active transfer, chunk 1 included,
\* changes neither the slots nor received_count, queues CHUNK_RECEIVED for the
\* chunk again, and the transfer still delivers the payload exactly once.
C8_DuplicateIdempotent ==
    /\ [][(ev'.op = "chunk" /\ Redelivery(proto[ev'.ep], ev'.frame)) =>
            LET e == ev'.ep
                f == ev'.frame
            IN /\ proto'[e]._received_chunks = proto[e]._received_chunks
               /\ proto'[e]._received_chunk_count = proto[e]._received_chunk_count
               /\ proto'[e].tasks = Append(proto[e].tasks,
                      [ack_type |-> ACK_CHUNK_RECEIVED, chunk_number |-> f.chunk_num])]_vars
    /\ [](OnlyDuplicates => proto["B"].delivered = <<Payload>>)

\* every frame of the transfer was handed over once and unaltered, in any order
EachFrameOnce ==
    /\ link.corrupts = 0
    /\ link.dups = 0
    /\ call["A"].pc = "done"
    /\ call["A"].ret = "True"
    /\ dataCh["B"] = <<>>

\* C9 - Whatever the order in which the chunks of a transfer arrive, chunk 1
\* first or not, all of them are stored and the payload is delivered as it is
\* for in-order arrival.
C9_OutOfOrder ==
    EachFrameOnce =>
        /\ proto["B"].delivered = <<Payload>>
        /\ proto["B"]._received_chunk_count = TotalChunks(Payload)

BadCrc(f) == _calculate_crc32(f.data) # f.chunk_crc32

\* C10 - A chunk whose payload CRC differs from the header's chunk_crc32 is not
\* stored: CHUNK_ERROR(chunk_num) is queued, crc_errors grows by exactly 1, the
\* slots, the counts and the deliveries stay as they were; and no delivered
\* payload contains an altered chunk.
C10_BadCrcRejected ==
    /\ [][(ev'.op = "chunk" /\ BadCrc(ev'.frame)) =>
            LET e == ev'.ep
                f == ev'.frame
            IN /\ proto'[e]._received_chunks = proto[e]._received_chunks
               /\ proto'[e]._received_chunk_count = proto[e]._received_chunk_count
               /\ proto'[e]._response_chunks = proto[e]._response_chunks
               /\ proto'[e]._response_chunk_count = proto[e]._response_chunk_count
               /\ proto'[e].delivered = proto[e].delivered
               /\ proto'[e]._stats.crc_errors = proto[e]._stats.crc_errors + 1
               /\ proto'[e].tasks = Append(proto[e].tasks,
                      [ack_type |-> ACK_CHUNK_ERROR, chunk_number |-> f.chunk_num])]_vars
    /\ [](\A e \in Ep : \A k \in 1..Len(proto[e].delivered) :
              proto[e].delivered[k] = Payload)

\* a chunk with a wrong CRC has just been handed to the receiver
C10_Witness ==
    /\ ev.op = "chunk"
    /\ BadCrc(ev.frame)
    /\ proto[ev.ep]._stats.crc_errors = 1
    /\ proto[ev.ep]._received_chunk_count > 0

-----------------------------------------------------------------------------
(* Properties of RefactoredChunkedBLEProtocol                              *)

\* the sender's position moves past chunk rsend.i in this step
RAdvances == rsend.pc = "wait" /\ (rsend'.i > rsend.i \/ rsend'.pc = "final")

\* C3 - send_data returns True only if, after the last chunk was acknowledged,
\* an ACK with chunk_number 0 of type TRANSFER_COMPLETE or TRANSFER_SUCCESS
\* reached the sender while it waited for the whole-transfer ACK.
C3_FinalAckRequired ==
    (rsend.pc = "done" /\ rsend.ret = "True" /\ RTotal > 0) => rhist.finalAck

\* C4 - On a link that drops the first k ACKs of every chunk and carries no
\* other ACK, send_data returns True when k < max_retries and False when
\* k >= max_retries, and no chunk frame is ever written more than max_retries
\* times.
C4_RetransmissionBound ==
    /\ \A n \in 1..2 : rhist.writes[n] <= rs["A"].max_retries
    /\ (rsend.pc = "done" /\ rlink.injected = 0 /\ RTotal > 0) =>
          ((rsend.ret = "True") <=> (rlink.k < rs["A"].max_retries))

\* C6 - The sender moves past chunk i only if an ACK of type CHUNK_RECEIVED
\* naming chunk i reached it during the wait; when the ACKs of the wait are all
\* CHUNK_ERROR naming chunk i, it stays on chunk i.
C6_AdvanceOnlyOnChunkReceived ==
    [][RAdvances =>
          \E a \in rhist.sinceClear :
              a.ack_type = ACK_CHUNK_RECEIVED /\ a.chunk_number = rsend.i]_vars

\* C7 - While the sender waits for the ACK of chunk i and every ACK that
\* reached it during the wait names another chunk, the sender stays where it
\* is: same chunk, same attempt, no frame written, no result yet.
C7_StrayAckDropped ==
    [][(/\ rsend.pc = "wait"
        /\ rhist.sinceClear # {}
        /\ \A a \in rhist.sinceClear : a.chunk_number # rsend.i)
       => (/\ rsend'.i = rsend.i
           /\ rsend'.attempt = rsend.attempt
           /\ rsend'.pc = "wait"
           /\ rhist'.writes = rhist.writes)]_vars

-----------------------------------------------------------------------------
(* Properties of one ChunkedBLEProtocol driven by a peer (SpecH, SpecC)     *)

\* the ACK tasks the step has created
NewTasks(s, t) == { t.tasks[k] : k \in (Len(s.tasks) + 1)..Len(t.tasks) }
Task(ack_type, chunk_number) == [ack_type |-> ack_type, chunk_number |-> chunk_number]

\* Object s is receiving (not sending), and frame f is a well-formed chunk of
\* the transfer in progress that goes into the last empty slot.
FillsLastSlot(s, f) ==
    /\ ~s._sending_chunks
    /\ s._transfer_in_progress
    /\ _validate_chunk_header(f.chunk_num, f.total_chunks, f.data_size, FrameLen(f))
    /\ ChunkCrcValid(f)
    /\ f.total_chunks = s._expected_chunks
    /\ f.global_crc32 = s._expected_global_crc32
    /\ f.chunk_num <= Len(s._received_chunks)
    /\ s._received_chunks[f.chunk_num] = NoneSlot
    /\ s._received_chunk_count + 1 = s._expected_chunks

\* the payload the slots hold once f is stored
Assembled(s, f) == Join([s._received_chunks EXCEPT ![f.chunk_num] = f.data])

\* C11 - When the last slot of a receive transfer is filled and the CRC of the
\* joined slots differs from the expected global CRC, the handler emits
\* TRANSFER_FAILED(0), does not invoke the data-received callback, and cancels
\* the transfer: the slots are cleared and the received count is 0.
C11_GlobalCrcMismatch ==
    [][(/\ ev'.op = "chunk"
        /\ FillsLastSlot(proto["A"], ev'.frame)
        /\ _calculate_crc32(Assembled(proto["A"], ev'.frame))
              # proto["A"]._expected_global_crc32)
       => /\ Task(ACK_TRANSFER_FAILED, 0) \in NewTasks(proto["A"], proto'["A"])
          /\ proto'["A"].delivered = proto["A"].delivered
          /\ proto'["A"]._received_chunks = <<>>
          /\ proto'["A"]._received_chunk_count = 0]_vars

\* the list of slots the handler joins when frame f completes the transfer
SlotsWith(s, f) ==
    LET s1 == ChunkInit(s, f).s IN
    IF s1._sending_chunks
    THEN [s1._response_chunks EXCEPT ![f.chunk_num] = f.data]
    ELSE [s1._received_chunks EXCEPT ![f.chunk_num] = f.data]

\* the total_chunks of the transfer frame f is stored into
TotalOf(s, f) ==
    LET s1 == ChunkInit(s, f).s IN
    IF s1._sending_chunks THEN s1._response_expected_chunks ELSE s1._expected_chunks

\* the handler call of this step has passed a payload to the callback
Delivers == ev'.op = "chunk" /\ Len(proto'["A"].delivered) > Len(proto["A"].delivered)
Last(q) == q[Len(q)]

\* C12 - Every payload passed to the data-received callback, in normal and in
\* response reception, is the concatenation of all total_chunks slots with
\* none missing, and its CRC equals the global_crc32 carried in the header of
\* each of its chunks.
C12_DeliveredIsWhole ==
    [][Delivers =>
         LET d == Last(proto'["A"].delivered)
             slots == SlotsWith(proto["A"], ev'.frame)
         IN /\ Len(slots) = TotalOf(proto["A"], ev'.frame)
            /\ \A k \in 1..Len(slots) : slots[k] # NoneSlot
            /\ d = Join(slots)
            /\ \A g \in hist'.heads : _calculate_crc32(d) = g]_vars

\* Frame f passes the per-chunk checks, and its total_chunks or global_crc32
\* differs from those of the receive transfer in progress in s.
Inconsistent(s, f) ==
    /\ ~s._sending_chunks
    /\ s._transfer_in_progress
    /\ Accepts(s, f)
    /\ \/ f.total_chunks # s._expected_chunks
       \/ f.global_crc32 # s._expected_global_crc32

\* C13 - During an active receive transfer a chunk whose total_chunks or
\* global_crc32 differs from those of the transfer is never stored, counted or
\* made to complete the transfer with a delivery: the handler emits
\* CHUNK_ERROR(chunk_num) and cancels the transfer.
C13_InconsistentChunk ==
    [][(ev'.op = "chunk" /\ Inconsistent(proto["A"], ev'.frame))
       => /\ proto'["A"].delivered = proto["A"].delivered
          /\ Task(ACK_CHUNK_ERROR, ev'.frame.chunk_num) \in NewTasks(proto["A"], proto'["A"])
          /\ Task(ACK_CHUNK_RECEIVED, ev'.frame.chunk_num) \notin NewTasks(proto["A"], proto'["A"])
          /\ ~proto'["A"]._transfer_in_progress
          /\ proto'["A"]._received_chunks = <<>>
          /\ proto'["A"]._received_chunk_count = 0]_vars

\* send_data(request) has returned True on "A", the peer's TRANSFER_COMPLETE
\* echoing the request's total_chunks and global_crc32 has been processed, and
\* nothing else has reached "A" since.
AwaitingResponse(request) ==
    /\ call["A"].pc = "done" /\ call["A"].ret = "True" /\ call["A"].data = request
    /\ proto["A"]._sending_chunks
    /\ hasattr(proto["A"], "_response_expected_chunks")
    /\ hasattr(proto["A"], "_response_expected_global_crc32")
    /\ proto["A"]._response_expected_chunks = TotalChunks(request)
    /\ proto["A"]._response_expected_global_crc32 = _calculate_crc32(request)
    /\ proto["A"]._response_chunk_count = 0
    /\ proto["A"].tasks = <<>>

\* the one-chunk responses of the peer
Responses == {OneChunk, Reply}

\* C14 - Exchange: after send_data has completed and the peer's
\* TRANSFER_COMPLETE echoing the request's total_chunks and global_crc32 has
\* been processed, the chunk of a response R that differs from the request
\* (valid chunk CRC, global_crc32 = crc32(R)) is stored and acknowledged, R is
\* delivered to the callback exactly once, TRANSFER_SUCCESS(0) is emitted and
\* _sending_chunks is false.
C14_Exchange ==
    [][\A R \in Responses :
         (/\ hist.fed = 1 /\ hist.sends = 0
          /\ AwaitingResponse(Payload)
          /\ R # Payload
          /\ ev'.op = "chunk"
          /\ ev'.frame = ChunkPacket(R, 1))
         => /\ Task(ACK_CHUNK_RECEIVED, 1) \in NewTasks(proto["A"], proto'["A"])
            /\ Task(ACK_TRANSFER_SUCCESS, 0) \in NewTasks(proto["A"], proto'["A"])
            /\ proto'["A"].delivered = Append(proto["A"].delivered, R)
            /\ ~proto'["A"]._sending_chunks]_vars

\* C15 - After one exchange (send, then complete reception of the response) has
\* finished on an instance, a second exchange on the same instance behaves
\* like the first: its response chunk is stored and acknowledged and its
\* response payload is delivered to the callback.
C15_SecondExchange ==
    [][(/\ hist.stage = 4 /\ hist.fed = 3
        /\ proto["A"].delivered = <<OneChunk>>
        /\ AwaitingResponse(OneChunk)
        /\ ev'.op = "chunk"
        /\ ev'.frame = ChunkPacket(OneChunk, 1))
       => /\ Task(ACK_CHUNK_RECEIVED, 1) \in NewTasks(proto["A"], proto'["A"])
          /\ proto'["A"].delivered = <<OneChunk, OneChunk>>]_vars

\* A receive transfer of "A" is active and no chunk has arrived for longer than
\* the chunk timeout.
Overdue ==
    /\ proto["A"]._transfer_in_progress
    /\ proto["A"]._chunk_timeout > 0
    /\ proto["A"]._last_chunk_time # None
    /\ clock - proto["A"]._last_chunk_time > proto["A"]._chunk_timeout

\* Nothing of "A" is left to run: no task is pending and no send_data is
\* suspended.  Only a call from the user or a notification can run code of "A".
AtRest ==
    /\ proto["A"].tasks = <<>>
    /\ call["A"].pc \in {"idle", "done"}

\* C16 - Receive-side quiescence timeout: a receive transfer that is active
\* with chunk_timeout > 0 and has had no chunk for longer than chunk_timeout is
\* cancelled without any further call from the user; so it is never the case
\* that such a transfer is still active when nothing of the instance is left
\* to run.
C16_QuiescenceTimeout == ~(Overdue /\ AtRest)

-----------------------------------------------------------------------------
(* Properties of send_data alone (SpecC, Spec, SpecBig)                     *)

\* Call c of send_data ends in this step by a chunk timeout or by a failed
\* write, and no other call of send_data has been made.
SendFails(c) ==
    /\ call[c].pc # "done"
    /\ call'[c].pc = "done"
    /\ call'[c].ret = "False"
    /\ _validate_data_size(BLen(call[c].data))
    /\ \A d \in Co \ {c} : call[d].pc = "idle"

\* C17 - Whenever send_data ends in failure or cancellation (chunk timeout or
\* write error) the session is Idle afterwards: _sending_chunks is false, the
\* slot storage is empty and the chunk timer is reset, so that a following
\* inbound chunk 1 is handled as a fresh normal receive transfer (stored).
C17_IdleAfterFailure ==
    [][\A c \in Co :
         SendFails(c)
         => /\ ~proto'["A"]._sending_chunks
            /\ proto'["A"]._received_chunks = <<>>
            /\ proto'["A"]._last_chunk_time = None
            /\ Stores(proto'["A"], ChunkPacket(Reply, 1))]_vars

\* call d of send_data is suspended at a write or at the inter-chunk delay
InFlight(d) == call[d].pc \in {"write", "sleep"}

\* C18 - Single-flight: a second send_data invoked while an earlier send_data
\* on the same object is in flight is rejected without writing to the link and
\* without changing _chunks_to_send, _expected_global_crc32 or _sending_chunks.
C18_SingleFlight ==
    [][\A c \in Co :
         (/\ call[c].pc = "idle"
          /\ ev'.op = "send" /\ ev'.ep = c
          /\ \E d \in Co \ {c} : Obj(d) = Obj(c) /\ InFlight(d))
         => /\ call'[c].pc = "done"
            /\ call'[c].ret = "False"
            /\ dataCh' = dataCh
            /\ ctrlCh' = ctrlCh
            /\ proto'["A"]._chunks_to_send = proto["A"]._chunks_to_send
            /\ proto'["A"]._expected_global_crc32 = proto["A"]._expected_global_crc32
            /\ proto'["A"]._sending_chunks = proto["A"]._sending_chunks]_vars

\* C19 - send_data with a payload longer than MAX_TOTAL_DATA_SIZE returns
\* failure before anything is written to the data or control channel and
\* leaves the state of the object unchanged (flags, buffers, expected global
\* CRC, statistics).
C19_OversizeRejected ==
    [][\A c \in Co :
         (/\ call[c].pc = "idle"
          /\ ev'.op = "send" /\ ev'.ep = c
          /\ BLen(call[c].data) > MAX_TOTAL_DATA_SIZE)
         => /\ call'[c].pc = "done"
            /\ call'[c].ret = "False"
            /\ proto' = proto
            /\ dataCh' = dataCh
            /\ ctrlCh' = ctrlCh]_vars

\* send_data has just returned False for a payload of 65537 bytes on an object
\* that was idle, and nothing is on the channels
C19_Witness ==
    /\ ev.op = "send" /\ ev.ep = "A"
    /\ BLen(call["A"].data) = MAX_TOTAL_DATA_SIZE + 1
    /\ call["A"].pc = "done" /\ call["A"].ret = "False"
    /\ proto["A"] = ProtoInit
    /\ dataCh = [e \in Ep |-> <<>>]
    /\ ctrlCh = [e \in Ep |-> <<>>]

\* C20 - Every chunk frame emitted by send_data carries total_chunks <=
\* MAX_CHUNKS_PER_TRANSFER: a payload within MAX_TOTAL_DATA_SIZE whose chunk
\* count exceeds MAX_CHUNKS_PER_TRANSFER is rejected pre-flight and produces
\* no wire traffic.
C20_ChunkCountBound ==
    [][\A e \in Ep :
         Len(dataCh'[e]) > Len(dataCh[e])
         => dataCh'[e][Len(dataCh'[e])].total_chunks <= MAX_CHUNKS_PER_TRANSFER]_vars

\* the frames send_data has written, in the order of the writes
Emitted == dataCh["B"]

\* t = ceil(n / CHUNK_SIZE)
IsCeil(t, n) == t * CHUNK_SIZE >= n /\ (t - 1) * CHUNK_SIZE < n /\ t >= 0

\* C21 - Chunk framing of send_data: for every payload P the frames emitted
\* are numbered 1..total_chunks with total_chunks = ceil(|P| / CHUNK_SIZE),
\* every non-final chunk carries exactly CHUNK_SIZE payload bytes and the final
\* one 1..CHUNK_SIZE, data_size equals the length of the slice, every frame
\* carries global_crc32 = crc32(P) and total_data_size = |P|, and the slices
\* joined in chunk order are P.
C21_Framing ==
    /\ \A k \in 1..Len(Emitted) :
          LET f == Emitted[k] IN
          /\ f.chunk_num = k
          /\ IsCeil(f.total_chunks, BLen(Payload))
          /\ k <= f.total_chunks
          /\ f.data_size = BLen(f.data)
          /\ k < f.total_chunks => f.data_size = CHUNK_SIZE
          /\ k = f.total_chunks => f.data_size \in 1..CHUNK_SIZE
          /\ f.global_crc32 = _calculate_crc32(Payload)
          /\ f.total_data_size = BLen(Payload)
    /\ (call["A"].pc = "done" /\ call["A"].ret = "True")
          => /\ IsCeil(Len(Emitted), BLen(Payload))
             /\ Join([k \in 1..Len(Emitted) |-> Emitted[k].data]) = Payload

\* send_data has returned True for the 500-byte payload: three frames, the
\* last one shorter than CHUNK_SIZE
C21_Witness ==
    /\ call["A"].pc = "done" /\ call["A"].ret = "True"
    /\ BLen(Payload) = 500
    /\ Len(Emitted) = 3
    /\ Emitted[3].data_size = 500 - 2 * CHUNK_SIZE

-----------------------------------------------------------------------------
(* Properties of receive_data (SpecV)                                       *)

\* C22 - receive_data waits on the receiver's completion signal: if a receive
\* transfer is fully assembled and verified before the deadline, receive_data
\* returns the assembled payload; it returns None only when the deadline
\* elapses with no transfer completed since the call.
C22_ReceiveData ==
    [][(call["recv"].pc = "wait" /\ call'["recv"].pc = "done")
       => IF Len(proto["A"].delivered) > call["recv"].i
          THEN /\ call'["recv"].ret = "data"
               /\ call'["recv"].data = proto["A"].delivered[call["recv"].i + 1]
          ELSE call'["recv"].ret = "None"]_vars

-----------------------------------------------------------------------------
(* Further properties of RefactoredChunkedBLEProtocol (SpecR)               *)

\* this step is the data notification of "B" on the oldest frame in flight
ROnDataStep == rdataCh["B"] # <<>> /\ rdataCh'["B"] = Tail(rdataCh["B"])

\* frame f is a chunk of a transfer that s has already assembled and delivered
LateDuplicate(s, f) ==
    /\ s.delivered # <<>>
    /\ f.chunk_num \in 1..Len(s._incoming_chunks)
    /\ s._incoming_chunks[f.chunk_num] # NoneSlot

\* C23 - on_data is fired exactly once per completed receive transfer: once a
\* transfer has been assembled and delivered, re-delivery of one of its chunks
\* neither changes a slot nor fires on_data or TRANSFER_SUCCESS again.
C23_OnDataOnce ==
    [][(ROnDataStep /\ LateDuplicate(rs["B"], Head(rdataCh["B"])))
       => /\ rs'["B"].delivered = rs["B"].delivered
          /\ rs'["B"]._incoming_chunks = rs["B"]._incoming_chunks
          /\ \A k \in (Len(rs["B"].tasks) + 1)..Len(rs'["B"].tasks) :
                rs'["B"].tasks[k].ack_type # ACK_TRANSFER_SUCCESS]_vars

-----------------------------------------------------------------------------
(* Further properties of two ChunkedBLEProtocol endpoints (Spec)            *)

\* the only fault of the link so far is one altered payload byte in one frame
OneCorruption ==
    /\ link.corrupts = 1
    /\ link.dups = 0
    /\ link.pauses = 0
    /\ ~link.reordered
    /\ ~link.dropAcks

\* C24 - Single-chunk corruption recovery: when exactly one chunk i has a
\* payload byte altered in flight and the receiver has answered CHUNK_ERROR(i),
\* the sender on processing that ACK writes on the data channel a frame
\* identical to the original frame i and counts one retransmission (so that
\* the payload is then delivered with retransmissions = 1, crc_errors = 1).
C24_CorruptionRecovery ==
    [][(/\ OneCorruption
        /\ Sendable(Payload)
        /\ ev'.op = "ack" /\ ev'.ep = "A"
        /\ ev'.ack.ack_type = ACK_CHUNK_ERROR
        /\ ev'.ack.chunk_number \in 1..TotalChunks(Payload)
        /\ proto["B"]._stats.crc_errors = 1)
       => /\ dataCh'["B"] = Append(dataCh["B"], ChunkPacket(Payload, ev'.ack.chunk_number))
          /\ proto'["A"]._stats.retransmissions = 1]_vars

-----------------------------------------------------------------------------
(* Properties of the retransmission of chunks (SpecE)                      *)

\* C25 - Retry limit: whatever CHUNK_ERROR ACKs the peer sends for the chunks
\* of the payload, the sender retransmits no chunk more than MAX_RETRIES
\* times, so it makes at most MAX_RETRIES retransmissions per chunk of the
\* payload in all; and once it has made that many for a payload of one chunk,
\* send_data does not report success.
C25_RetryLimit ==
    Sendable(Payload) =>
        /\ proto["A"]._stats.retransmissions <= DEFAULT_MAX_RETRIES * TotalChunks(Payload)
        /\ (/\ TotalChunks(Payload) = 1
            /\ proto["A"]._stats.retransmissions >= DEFAULT_MAX_RETRIES
            /\ call["A"].pc = "done") => call["A"].ret # "True"

-----------------------------------------------------------------------------
(* Properties of successive receive transfers (SpecV)                      *)

\* the receive side of "A" has finished a transfer, by delivering its payload
\* or by cancelling it, and send_data has not been called
ReceiveFinished ==
    /\ call["A"].pc = "idle"
    /\ ~proto["A"]._sending_chunks
    /\ ~proto["A"]._transfer_in_progress
    /\ proto["A"].delivered # <<>> \/ proto["A"]._stats.timeouts > 0

\* C26 - Next transfer: when the receive side has delivered a payload or
\* cancelled a transfer, the valid single frame of a payload with another
\* global_crc32 is accepted and that payload is delivered.
C26_NextTransfer ==
    [][(/\ ReceiveFinished
        /\ ev'.op = "chunk"
        /\ ev'.frame \in {ChunkPacket(OneChunk, 1), ChunkPacket(Reply, 1)}
        /\ proto["A"]._expected_global_crc32 # None
        /\ proto["A"]._expected_global_crc32 # ev'.frame.global_crc32)
       => proto'["A"].delivered = Append(proto["A"].delivered, ev'.frame.data)]_vars

-----------------------------------------------------------------------------
(* Properties of sending while receiving (SpecH)                           *)

\* a receive transfer of "A" is under way: some but not all chunks are stored
Receiving(s) ==
    /\ s._transfer_in_progress
    /\ 0 < s._received_chunk_count
    /\ s._received_chunk_count < s._expected_chunks

\* C27 - Send during receive: a send_data call made while a receive transfer
\* is under way leaves its slots, its received count and its expected global
\* CRC as they are, and the missing chunk of that transfer, arriving while
\* send_data runs, is stored and completes the delivery of the inbound payload.
C27_SendDuringReceive ==
    [][/\ (/\ Receiving(proto["A"])
           /\ ev'.op = "send" /\ ev'.ep = "A"
           /\ Sendable(Payload))
          => /\ proto'["A"]._received_chunks = proto["A"]._received_chunks
             /\ proto'["A"]._received_chunk_count = proto["A"]._received_chunk_count
             /\ proto'["A"]._expected_global_crc32 = proto["A"]._expected_global_crc32
       /\ (/\ Receiving(proto["A"])
           /\ call["A"].pc \notin {"idle", "done"}
           /\ proto["A"]._received_chunks = <<ChunkOf(TwoChunks, 1), NoneSlot>>
           /\ ev'.op = "chunk"
           /\ ev'.frame = ChunkPacket(TwoChunks, 2))
          => proto'["A"].delivered = Append(proto["A"].delivered, TwoChunks)]_vars

-----------------------------------------------------------------------------
(* Properties of a failing write (SpecW)                                   *)

\* C28 - Write failure: when the write of chunk i raises, send_data has
\* returned False, _sending_chunks is false, total_data_sent and
\* successful_transfers are what they were before the call, and the frames on
\* the data channel are those of chunks 1..i: no later chunk is written.
C28_WriteFailure ==
    ev.op = "write_error" =>
        /\ call["A"].pc = "done"
        /\ call["A"].ret = "False"
        /\ ~proto["A"]._sending_chunks
        /\ proto["A"]._stats.total_data_sent = 0
        /\ proto["A"]._stats.successful_transfers = 0
        /\ Emitted = [k \in 1..call["A"].i |-> ChunkPacket(Payload, k)]
        /\ ~ENABLED SendStart("A")
        /\ ~ENABLED WriteReturn("A")
        /\ ~ENABLED SleepReturn("A")

\* the write of chunk 2 of a payload of more than two chunks has raised
C28_Witness ==
    /\ ev.op = "write_error"
    /\ call["A"].i = 2
    /\ TotalChunks(Payload) > 2
    /\ call["A"].ret = "False"

-----------------------------------------------------------------------------
(* Properties of the closing ACKs of a receive transfer (SpecV)            *)

\* the ACK tasks the step has created, in the order they will run
TasksAdded(s, t) == SubSeq(t.tasks, Len(s.tasks) + 1, Len(t.tasks))

\* C29 - Closing ACKs: the frame that fills the last slot is answered with
\* CHUNK_RECEIVED for it, then TRANSFER_COMPLETE(0), then TRANSFER_SUCCESS(0)
\* when the CRC of the joined slots is the expected global CRC, and with
\* neither TRANSFER_COMPLETE nor TRANSFER_SUCCESS when it is not.
C29_ClosingAcks ==
    [][(/\ ev'.op = "chunk"
        /\ FillsLastSlot(proto["A"], ev'.frame))
       => IF _calculate_crc32(Assembled(proto["A"], ev'.frame))
                = proto["A"]._expected_global_crc32
          THEN TasksAdded(proto["A"], proto'["A"])
                  = << Task(ACK_CHUNK_RECEIVED, ev'.frame.chunk_num),
                       Task(ACK_TRANSFER_COMPLETE, 0),
                       Task(ACK_TRANSFER_SUCCESS, 0) >>
          ELSE \A k \in 1..Len(TasksAdded(proto["A"], proto'["A"])) :
                  TasksAdded(proto["A"], proto'["A"])[k].ack_type
                     \notin {ACK_TRANSFER_COMPLETE, ACK_TRANSFER_SUCCESS}]_vars

-----------------------------------------------------------------------------
(* Properties of ACKs of another transfer (SpecH)                          *)

\* send_data is running on "A": the outbound transfer of Payload is current
Outbound ==
    /\ call["A"].pc \in {"write", "sleep"}
    /\ proto["A"]._expected_global_crc32 = _calculate_crc32(Payload)

\* C30 - Foreign ACK: an ACK whose global_crc32 is not that of the current
\* outbound transfer is dropped: the receive slots, the received count,
\* _transfer_in_progress and every statistics counter stay as they are.
C30_ForeignAckDropped ==
    [][(/\ Outbound
        /\ ev'.op = "ack" /\ ev'.ep = "A"
        /\ ev'.ack.global_crc32 # _calculate_crc32(Payload))
       => /\ proto'["A"]._received_chunks = proto["A"]._received_chunks
          /\ proto'["A"]._received_chunk_count = proto["A"]._received_chunk_count
          /\ proto'["A"]._transfer_in_progress = proto["A"]._transfer_in_progress
          /\ proto'["A"]._stats = proto["A"]._stats]_vars

-----------------------------------------------------------------------------
(* Properties of the limits of a receive transfer (SpecL)                  *)

\* C31 - Announced limits: a chunk 1 whose header announces more than
\* MAX_TOTAL_DATA_SIZE bytes or more than MAX_CHUNKS_PER_TRANSFER chunks starts
\* no receive transfer: the slots and the received count stay as they are,
\* no transfer becomes active and no CHUNK_RECEIVED is queued for the chunk.
C31_AnnouncedLimits ==
    [][(/\ ev'.op = "chunk"
        /\ ev'.frame.chunk_num = 1
        /\ \/ ev'.frame.total_data_size > MAX_TOTAL_DATA_SIZE
           \/ ev'.frame.total_chunks > MAX_CHUNKS_PER_TRANSFER)
       => /\ proto'["A"]._received_chunks = proto["A"]._received_chunks
          /\ proto'["A"]._received_chunk_count = proto["A"]._received_chunk_count
          /\ proto'["A"]._transfer_in_progress = proto["A"]._transfer_in_progress
          /\ Task(ACK_CHUNK_RECEIVED, 1) \notin NewTasks(proto["A"], proto'["A"])]_vars

-----------------------------------------------------------------------------
(* Properties of the ACK messages (SpecH)                                  *)

\* the frames of the peer that are frames of a payload as send_data cuts it
Genuine ==
    { ChunkPacket(OneChunk, 1), ChunkPacket(Reply, 1),
      ChunkPacket(TwoChunks, 1), ChunkPacket(TwoChunks, 2), ChunkPacket(SharedFirst, 1) }

\* C32 - ACK fields: when the handler has stored a chunk, the CHUNK_RECEIVED
\* message its task will write carries the total_chunks and the global_crc32
\* of the chunk's frame, in normal reception and in response reception.
C32_AckFields ==
    [][(/\ ev'.op = "chunk"
        /\ ev'.frame \in Genuine
        /\ Stores(proto["A"], ev'.frame)
        /\ Task(ACK_CHUNK_RECEIVED, ev'.frame.chunk_num) \in NewTasks(proto["A"], proto'["A"]))
       => LET m == AckMessage(proto'["A"], Task(ACK_CHUNK_RECEIVED, ev'.frame.chunk_num))
          IN /\ m.total_chunks = ev'.frame.total_chunks
             /\ m.global_crc32 = ev'.frame.global_crc32]_vars

-----------------------------------------------------------------------------
(* Invariants of the receive state (SpecS)                                 *)

\* the number of slots of the list that hold a chunk
Filled(slots) == Cardinality({k \in 1..Len(slots) : slots[k] # NoneSlot})

\* C33 - Slot counts: _received_chunk_count is the number of filled slots of
\* _received_chunks and is at most _expected_chunks, _response_chunk_count is
\* the number of filled slots of _response_chunks, and the list of receive
\* slots is empty or has the length it was allocated with: no chunk is written
\* outside it.
C33_SlotCounts ==
    LET s == proto["A"] IN
    /\ s._received_chunk_count = Filled(s._received_chunks)
    /\ s._received_chunk_count <= s._expected_chunks
    /\ Len(s._received_chunks) \in {0, s._expected_chunks}
    /\ s._response_chunk_count = Filled(s._response_chunks)

\* a chunk is held in a receive slot and another in a response slot, each list
\* with a slot still empty
C33_Witness ==
    LET s == proto["A"] IN
    /\ s._received_chunk_count = 1 /\ Len(s._received_chunks) = 2
    /\ s._response_chunk_count = 1 /\ Len(s._response_chunks) = 2

-----------------------------------------------------------------------------
(* Properties of RefactoredChunkedBLEProtocol on a lossless link (SpecR)   *)

\* the link drops no ACK and nothing but the receiver's ACKs reaches the sender
Lossless == rlink.k = 0 /\ rlink.injected = 0

\* C34 - No lost ACK: on a lossless link, for a payload of at least one chunk
\* and whenever the ACK callback runs with respect to the sender coroutine, no
\* chunk is written a second time and send_data does not return False.
C34_NoLostAck ==
    Lossless /\ RTotal >= 1 =>
        /\ \A n \in 1..2 : rhist.writes[n] <= 1
        /\ rsend.ret # "False"

-----------------------------------------------------------------------------
(* Properties of the chunk timer on the send side (SpecH)                  *)

\* C35 - Stale chunk timer: a send_data call made when no receive transfer is
\* active and nothing is pending, however long nothing has happened, is not
\* cancelled before its first chunk: it writes chunk 1.
C35_StaleTimer ==
    [][(/\ ev'.op = "send" /\ ev'.ep = "A"
        /\ Sendable(Payload)
        /\ ~proto["A"]._transfer_in_progress
        /\ proto["A"].tasks = <<>>)
       => /\ call'["A"].pc = "write"
          /\ Emitted' = Append(Emitted, ChunkPacket(Payload, 1))
          /\ proto'["A"]._stats.timeouts = proto["A"]._stats.timeouts]_vars

-----------------------------------------------------------------------------
(* Properties of the ChunkedBLEProtocol of chunked_ble.py (SpecQ)          *)

\* C36 - Own acknowledgements: with no cancel_current_transfer, a send_data
\* call that returns True took from response_queue the peer's
\* CONTROL_REQUEST_ACK for its own CONTROL_REQUEST and the peer's
\* CONTROL_DONE_ACK for its own CONTROL_DONE, not an item that answers an
\* earlier call or a message of the other kind.
C36_OwnAcknowledgements ==
    \A c \in SimpleCalls :
        (hist.cancels = 0 /\ call[c].ret = "True")
           => /\ call[c].request = [msg |-> CONTROL_REQUEST_ACK, of |-> c]
              /\ call[c].done = [msg |-> CONTROL_DONE_ACK, of |-> c]

\* the send_data calls that have passed the transfer_in_progress guard and
\* have not returned
PastGuard == {c \in SimpleCalls : call[c].pc \notin {"idle", "done"}}

\* C37 - Single sender: at most one send_data call is past the
\* transfer_in_progress guard at any time, whatever calls of send_data and of
\* cancel_current_transfer are made.
C37_SingleSender == Cardinality(PastGuard) <= 1

-----------------------------------------------------------------------------
(* Properties of receive_data of RefactoredChunkedBLEProtocol (SpecRV)     *)

\* receive_data of e returns in this step, before its deadline
RReturns(e) == rs[e]._received_event /\ ~rs'[e]._received_event

\* C38 - receive_data returns a payload: on a lossless link, when receive_data
\* returns before its deadline, what it returns is not None but a payload
\* that on_data has delivered on that endpoint.
C38_ReceiveReturnsPayload ==
    [][\A e \in Ep :
          (Lossless /\ RReturns(e)) =>
             /\ rs[e]._received_data # NoneSlot
             /\ \E k \in 1..Len(rs[e].delivered) : rs[e].delivered[k] = rs[e]._received_data]_vars

-----------------------------------------------------------------------------
(* Properties of the statistics (SpecS)                                    *)

\* C39 - Successful transfers: successful_transfers moves only by one, and only
\* in a step that delivers an inbound payload or in which a TRANSFER_COMPLETE
\* or TRANSFER_SUCCESS acknowledgement of the peer is handled: never for an
\* outbound transfer the peer has not acknowledged.
C39_SuccessfulTransfers ==
    [][proto'["A"]._stats.successful_transfers # proto["A"]._stats.successful_transfers
       => /\ proto'["A"]._stats.successful_transfers
                = proto["A"]._stats.successful_transfers + 1
          /\ \/ /\ ev'.op = "chunk"
                /\ Len(proto'["A"].delivered) = Len(proto["A"].delivered) + 1
             \/ /\ ev'.op = "ack"
                /\ ev'.ack.ack_type \in {ACK_TRANSFER_COMPLETE, ACK_TRANSFER_SUCCESS}]_vars

\* Sum of the lengths of the payloads handed to the data-received callback.
RECURSIVE DeliveredBytes(_)
DeliveredBytes(q) ==
    IF q = <<>> THEN 0 ELSE BLen(Head(q)) + DeliveredBytes(Tail(q))

\* C40 - Bytes received: every payload delivered to the data-received callback
\* adds its length to total_data_received, so that the counter is the sum of the
\* lengths of all delivered payloads; here for a payload delivered after
\* send_data has returned True, by normal reception or as a response.
C40_TotalDataReceived ==
    [][(/\ call["A"].pc = "done" /\ call["A"].ret = "True"
        /\ Len(proto'["A"].delivered) = Len(proto["A"].delivered) + 1
        /\ proto["A"]._stats.total_data_received
              = DeliveredBytes(proto["A"].delivered))
       => proto'["A"]._stats.total_data_received
              = DeliveredBytes(proto'["A"].delivered)]_vars
====
